---- MODULE Spec2Model ----
(***************************************************************************)
(* Model of the sample-data anonymizers of cf_office_hours:                *)
(*   src/docs/sample_data/anonymize_mentors.py                             *)
(*   src/docs/sample_data/anonymize_portfolio.py                           *)
(*                                                                         *)
(* A text is a sequence of one-character strings, so that the regular      *)
(* expressions of the source are modelled by what they match, character by *)
(* character.  Every call of the random module is a nondeterministic       *)
(* choice over the values the call can return.                             *)
(***************************************************************************)
EXTENDS Integers, Sequences, FiniteSets, TLC

VARIABLES
    used_names,     \* the used_names set of one run (both pipelines)
    issued,         \* display forms returned so far by the name generator
    text_in,        \* input text of the text function under check
    ctx,            \* its other arguments (the original and the new identity)
    text_out,       \* its output
    input_rows,     \* portfolio anonymize_csv: the records of the input file
    locations,      \* the collected and shuffled Location column
    stages,         \* the collected and shuffled Stage column
    sales_models,   \* the collected and shuffled Sales Model column
    loc_index,      \* the cursors into the three shuffled columns
    stage_index,
    sales_index,
    rows,           \* the records anonymized so far
    pc              \* position of the run

name_vars == <<used_names, issued>>

text_vars == <<text_in, ctx, text_out>>

csv_vars == <<input_rows, locations, stages, sales_models,
              loc_index, stage_index, sales_index, rows>>

vars == <<name_vars, text_vars, csv_vars, pc>>

(***************************************************************************)
(* Characters and the character classes of Python's re module.             *)
(***************************************************************************)
UpperSeq == <<"A","B","C","D","E","F","G","H","I","J","K","L","M",
              "N","O","P","Q","R","S","T","U","V","W","X","Y","Z">>

LowerSeq == <<"a","b","c","d","e","f","g","h","i","j","k","l","m",
              "n","o","p","q","r","s","t","u","v","w","x","y","z">>

DigitSeq == <<"0","1","2","3","4","5","6","7","8","9">>

Range(s) == {s[i] : i \in 1..Len(s)}

Upper == Range(UpperSeq)

Lower == Range(LowerSeq)

Digit == Range(DigitSeq)

\* \s of re (the whitespace the model's texts use)
Space == {" ", "\n", "\r", "\t"}

\* \w of re
IsWordChar(c) == c \in Upper \cup Lower \cup Digit \cup {"_"}

WordAt(t, i) == i >= 1 /\ i <= Len(t) /\ IsWordChar(t[i])

\* \b of re at the gap before index i (i = Len(t)+1 is the end of the text)
Boundary(t, i) == WordAt(t, i - 1) # WordAt(t, i)

In(t, i, S) == i >= 1 /\ i <= Len(t) /\ t[i] \in S

\* str.lower / str.upper on one character
LowerChar(c) == IF c \in Upper THEN LowerSeq[CHOOSE k \in 1..26 : UpperSeq[k] = c] ELSE c

UpperChar(c) == IF c \in Lower THEN UpperSeq[CHOOSE k \in 1..26 : LowerSeq[k] = c] ELSE c

ToLower(t) == [i \in 1..Len(t) |-> LowerChar(t[i])]

ToUpper(t) == [i \in 1..Len(t) |-> UpperChar(t[i])]

\* the length of the maximal run of characters of S that starts at index i
RunLen(t, i, S) ==
    IF i < 1 \/ i > Len(t) THEN 0
    ELSE LET stops == {k \in i..Len(t) + 1 : k > Len(t) \/ t[k] \notin S}
         IN  (CHOOSE k \in stops : \A j \in stops : k <= j) - i

\* t has the literal lit at index i (ic: re.IGNORECASE)
LitAt(t, i, lit, ic) ==
    /\ i >= 1
    /\ i + Len(lit) - 1 <= Len(t)
    /\ \A k \in 1..Len(lit) :
          IF ic THEN LowerChar(t[i + k - 1]) = LowerChar(lit[k])
                ELSE t[i + k - 1] = lit[k]

\* int(s) for a string of decimal digits
DigitVal(c) == (CHOOSE k \in 1..10 : DigitSeq[k] = c) - 1

StrToInt(s) ==
    LET f[k \in 0..Len(s)] == IF k = 0 THEN 0 ELSE 10 * f[k - 1] + DigitVal(s[k])
    IN  f[Len(s)]

\* str(n) for n >= 0
RECURSIVE IntToStr(_)
IntToStr(n) ==
    IF n < 10 THEN <<DigitSeq[n + 1]>>
    ELSE IntToStr(n \div 10) \o <<DigitSeq[(n % 10) + 1]>>

(***************************************************************************)
(* re.sub(pattern, repl, text): the text is scanned from the left; at each *)
(* index i, ml[i] is the length of the pattern's match there (0: none; no  *)
(* pattern of the source matches the empty string), the leftmost match is  *)
(* replaced and the scan goes on behind it.  ReSubAll is the set of results when    *)
(* the replacement function draws at random (rep[i] is the set of strings  *)
(* it can return for the match at i), ReSub the result of a deterministic  *)
(* replacement (rep[i] is the string).                                     *)
(***************************************************************************)
NextMatch(t, ml, i) ==
    LET hits == {j \in i..Len(t) : ml[j] > 0}
    IN  IF hits = {} THEN 0 ELSE CHOOSE j \in hits : \A k \in hits : j <= k

ReSubAll(t, ml, rep) ==
    LET f[i \in 1..Len(t) + 1] ==
            LET j == NextMatch(t, ml, i)
            IN  IF j = 0 THEN {SubSeq(t, i, Len(t))}
                ELSE {SubSeq(t, i, j - 1) \o r \o s :
                         r \in rep[j], s \in f[j + ml[j]]}
    IN  f[1]

ReSub(t, ml, rep) ==
    LET f[i \in 1..Len(t) + 1] ==
            LET j == NextMatch(t, ml, i)
            IN  IF j = 0 THEN SubSeq(t, i, Len(t))
                ELSE SubSeq(t, i, j - 1) \o rep[j] \o f[j + ml[j]]
    IN  f[1]

\* the match of length n at index i
Match(t, i, n) == SubSeq(t, i, i + n - 1)

(***************************************************************************)
(* randomize_dates (anonymize_portfolio.py)                                *)
(***************************************************************************)
Max2(a, b) == IF a >= b THEN a ELSE b

Min2(a, b) == IF a <= b THEN a ELSE b

\* r'\b(20\d{2})\b'
YearMatchLen(t, i) ==
    IF /\ Boundary(t, i)
       /\ In(t, i, {"2"})
       /\ In(t, i + 1, {"0"})
       /\ In(t, i + 2, Digit)
       /\ In(t, i + 3, Digit)
       /\ Boundary(t, i + 4)
    THEN 4 ELSE 0

\* mutant of NewYears: the upper clamp min(2025, year+5) is forgotten
NewYears_NoUpperClamp(year) ==
    LET lo == IF 2010 >= year - 5 THEN 2010 ELSE year - 5
        hi == year + 5
    IN  (IF lo > hi THEN hi ELSE lo)..(IF lo > hi THEN lo ELSE hi)

\* the years random.randint(min_year, max_year) can return for a matched year
NewYears(year) ==
    LET lo == Max2(2010, year - 5)
        hi == Min2(2025, year + 5)
        min_year == IF lo > hi THEN hi ELSE lo
        max_year == IF lo > hi THEN lo ELSE hi
    IN  min_year..max_year

\* mutant of replace_year: the range test lacks its upper end (2000 <= year)
replace_year_NoUpperTest(t, m) ==
    LET year == StrToInt(m)
    IN  IF 2000 <= year
        THEN {IntToStr(y) : y \in NewYears(year)}
        ELSE {m}

replace_year(t, m) ==
    LET year == StrToInt(m)
    IN  IF 2000 <= year /\ year <= 2025
        THEN {IntToStr(y) : y \in NewYears(year)}
        ELSE {m}

randomize_dates(t) ==
    ReSubAll(t, [i \in 1..Len(t) |-> YearMatchLen(t, i)],
                [i \in 1..Len(t) |-> replace_year(t, Match(t, i, YearMatchLen(t, i)))])

(***************************************************************************)
(* randomize_amount (anonymize_portfolio.py)                               *)
(*                                                                         *)
(* A float amount is held exactly as mant * 10^exp with an integer         *)
(* mantissa; the model's amounts have at most 7 digits, so that every      *)
(* product below stays inside TLC's 32-bit integers.                       *)
(***************************************************************************)
RECURSIVE Pow10(_)
Pow10(n) == IF n = 0 THEN 1 ELSE 10 * Pow10(n - 1)

\* mant * 10^exp >= 10^k
GeqPow10(mant, exp, k) ==
    IF mant = 0 THEN FALSE
    ELSE IF exp >= k THEN TRUE
    ELSE k - exp <= 9 /\ mant >= Pow10(k - exp)

\* a * 10^sa <= b * 10^sb, for a, b >= 0
LeqScaled(a, sa, b, sb) ==
    IF a = 0 THEN TRUE
    ELSE IF b = 0 THEN FALSE
    ELSE IF sa >= sb
         THEN sa - sb <= 9 /\ a <= b \div Pow10(sa - sb)
         ELSE sb - sa > 9 \/ (a + Pow10(sb - sa) - 1) \div Pow10(sb - sa) <= b

\* the integer that formatting mant * 10^exp with no further digit (the
\* rounding of '.1f' and '.0f') gives, as a set of one; a draw whose product
\* is an exact tie is left out (the empty set): the side the binary float
\* falls on is not modelled, and the factor is drawn from a continuum
RoundScaled(mant, exp) ==
    IF exp >= 0 THEN {mant * Pow10(exp)}
    ELSE IF -exp > 9 THEN {0}
    ELSE LET q == Pow10(-exp)
             lo == mant \div q
             r == mant % q
         IN  IF 2 * r < q THEN {lo}
             ELSE IF 2 * r > q THEN {lo + 1}
             ELSE {}

\* [0-9,]+(?:\.[0-9]+)? at index i: the length of group 1
AmountNumLen(t, i) ==
    LET n == RunLen(t, i, Digit \cup {","})
        frac == IF In(t, i + n, {"."}) THEN RunLen(t, i + n + 1, Digit) ELSE 0
    IN  IF n = 0 THEN 0
        ELSE IF frac > 0 THEN n + 1 + frac ELSE n

SuffixLetters == {"B", "M", "K", "T", "b", "m", "k", "t"}

\* r'\$([0-9,]+(?:\.[0-9]+)?)\s*([BMKTbmkt]|[Mm]illion|[Bb]illion|[Tt]rillion)?'
\* The one-letter alternative stands first, so it is the one that matches a
\* word that begins with b, m, k or t, 'million' included; \s* is greedy and
\* nothing behind it is required, so the match keeps the white space.
AmountMatchLen(t, i) ==
    IF ~In(t, i, {"$"}) THEN 0
    ELSE LET n == AmountNumLen(t, i + 1)
             sp == RunLen(t, i + 1 + n, Space)
         IN  IF n = 0 THEN 0
             ELSE IF In(t, i + 1 + n + sp, SuffixLetters) THEN 1 + n + sp + 1
             ELSE 1 + n + sp

\* match.group(1) and match.group(2) of a match m
AmountGroup1(m) == SubSeq(m, 2, 1 + AmountNumLen(m, 2))

AmountGroup2(m) == IF m[Len(m)] \in SuffixLetters THEN <<m[Len(m)]>> ELSE <<>>

RemoveCommas(s) == SelectSeq(s, LAMBDA c : c # ",")

\* float(amount_str) raises ValueError exactly when no digit is left
FloatFails(amount_str) == \A k \in 1..Len(amount_str) : amount_str[k] \notin Digit

\* float(amount_str) = FloatMant * 10^FloatExp
FloatMant(amount_str) == StrToInt(SelectSeq(amount_str, LAMBDA c : c \in Digit))

FloatExp(amount_str) ==
    LET dot == {k \in 1..Len(amount_str) : amount_str[k] = "."}
    IN  IF dot = {} THEN 0 ELSE -(Len(amount_str) - (CHOOSE k \in dot : TRUE))

\* multiplier = 10^MultiplierExp; 'MILLION' and 'BILLION' are not among the
\* cases of the source and 'TRILLION' is
MultiplierExp(suffix) ==
    LET up == ToUpper(suffix)
    IN  IF up = <<"K">> THEN 3
        ELSE IF up = <<"M">> THEN 6
        ELSE IF up = <<"B">> THEN 9
        ELSE IF up \in {<<"T">>, <<"T","R","I","L","L","I","O","N">>} THEN 12
        ELSE 0

\* random.uniform(0.67, 1.33), in hundredths
FactorLo == 67

FactorHi == 133

Factors == FactorLo..FactorHi

\* f"${x:.1f}<unit>" for x = tenths / 10
FormatTenths(tenths, unit) ==
    <<"$">> \o IntToStr(tenths \div 10) \o <<".">> \o IntToStr(tenths % 10) \o unit

\* the strings the formatting of new_amount = mant * 10^exp can give
FormatAmount(mant, exp) ==
    IF GeqPow10(mant, exp, 12)
    THEN {FormatTenths(x, <<"T">>) : x \in RoundScaled(mant, exp - 11)}
    ELSE IF GeqPow10(mant, exp, 9)
    THEN {FormatTenths(x, <<"B">>) : x \in RoundScaled(mant, exp - 8)}
    ELSE IF GeqPow10(mant, exp, 6)
    THEN {FormatTenths(x, <<"M">>) : x \in RoundScaled(mant, exp - 5)}
    ELSE IF GeqPow10(mant, exp, 3)
    THEN {FormatTenths(x, <<"K">>) : x \in RoundScaled(mant, exp - 2)}
    ELSE {<<"$">> \o IntToStr(x) : x \in RoundScaled(mant, exp)}

replace_amount(t, m) ==
    LET amount_str == RemoveCommas(AmountGroup1(m))
        suffix == AmountGroup2(m)
    IN  IF FloatFails(amount_str) THEN {m}
        ELSE UNION {FormatAmount(FloatMant(amount_str) * f,
                                 FloatExp(amount_str) + MultiplierExp(suffix) - 2) :
                        f \in Factors}

randomize_amount(t) ==
    ReSubAll(t, [i \in 1..Len(t) |-> AmountMatchLen(t, i)],
                [i \in 1..Len(t) |-> replace_amount(t, Match(t, i, AmountMatchLen(t, i)))])

(***************************************************************************)
(* The name generators.  The pools are the first entries of the source's   *)
(* lists (two regions of the mentors' pools; a few prefixes, suffixes and  *)
(* stand-alone names of the portfolio's), and MaxAttempts stands for       *)
(* max_attempts = 1000: what a call can return depends only on whether     *)
(* some attempt draws an unused name, not on the number of attempts.       *)
(***************************************************************************)
MaxAttempts == 2

Regions == {"us", "china"}

FIRST_NAMES ==
    [r \in Regions |->
        IF r = "us" THEN {<<"M","i","c","h","a","e","l">>}
        ELSE {<<"W","e","i">>, <<"L","i">>}]

LAST_NAMES ==
    [r \in Regions |->
        IF r = "us" THEN {<<"S","m","i","t","h">>, <<"B","r","o","w","n">>}
        ELSE {<<"W","a","n","g">>, <<"L","i">>}]

PREFIXES == {<<"N","o","v","a">>}

SUFFIXES == {<<"T","e","c","h">>, <<"A","I">>}

STANDALONE_NAMES == {<<"B","r","i","g","h","t","p","a","t","h">>}

\* one attempt of generate_random_name: region, first and last are drawn
PersonDraws ==
    UNION {{[first |-> f, last |-> l, full_name |-> f \o <<" ">> \o l] :
                f \in FIRST_NAMES[r], l \in LAST_NAMES[r]} : r \in Regions}

\* one attempt of generate_company_name: style and the parts are drawn
CompanyDraws ==
    {p \o <<" ">> \o x : p \in PREFIXES, x \in SUFFIXES} \cup STANDALONE_NAMES

\* the first attempt whose name is not in used (0: every attempt failed)
FirstFresh(used, names) ==
    LET fresh == {k \in 1..Len(names) : names[k] \notin used}
    IN  IF fresh = {} THEN 0 ELSE CHOOSE k \in fresh : \A j \in fresh : k <= j

\* generate_random_name(used_names) with the attempts' draws given: what it
\* returns and the set it leaves
generate_random_name(used, draws) ==
    LET k == FirstFresh(used, [a \in 1..Len(draws) |-> draws[a].full_name])
        fallback == <<"P","e","r","s","o","n"," ">> \o IntToStr(Cardinality(used) + 1)
    IN  IF k > 0
        THEN [first |-> draws[k].first, last |-> draws[k].last,
              full_name |-> draws[k].full_name,
              used |-> used \cup {draws[k].full_name}]
        ELSE [first |-> fallback, last |-> <<>>, full_name |-> fallback, used |-> used]

\* generate_company_name(used_names) with the attempts' draws given
generate_company_name(used, draws) ==
    LET k == FirstFresh(used, draws)
    IN  IF k > 0
        THEN [name |-> draws[k], used |-> used \cup {draws[k]}]
        ELSE [name |-> <<"C","o","m","p","a","n","y"," ">>
                           \o IntToStr(Cardinality(used) + 1),
              used |-> used]

(***************************************************************************)
(* preserve_suffix and normalize_to_slug (anonymize_portfolio.py)          *)
(***************************************************************************)
\* the corporate suffixes in the order of the source's list; dot: the
\* pattern ends with \.?
CorpSuffixes ==
    << [lit |-> <<"I","n","c">>, dot |-> TRUE],
       [lit |-> <<"L","L","C">>, dot |-> FALSE],
       [lit |-> <<"L","t","d">>, dot |-> TRUE],
       [lit |-> <<"C","o","r","p">>, dot |-> TRUE],
       [lit |-> <<"C","o">>, dot |-> TRUE],
       [lit |-> <<"G","m","b","H">>, dot |-> FALSE],
       [lit |-> <<"P","L","C">>, dot |-> FALSE] >>

\* r'\bInc\.?' and the like at index i, re.IGNORECASE: nothing is required
\* behind the letters
SuffixPatternLen(t, i, p) ==
    IF Boundary(t, i) /\ LitAt(t, i, p.lit, TRUE)
    THEN Len(p.lit) + (IF p.dot /\ In(t, i + Len(p.lit), {"."}) THEN 1 ELSE 0)
    ELSE 0

\* re.search: the leftmost index where pattern p matches (0: no match)
SuffixSearch(t, p) ==
    LET hits == {i \in 1..Len(t) : SuffixPatternLen(t, i, p) > 0}
    IN  IF hits = {} THEN 0 ELSE CHOOSE i \in hits : \A j \in hits : i <= j

\* preserve_suffix(original_name): match.group(0) of the first pattern of
\* the list that is found; <<>> stands for None
preserve_suffix(original_name) ==
    LET found == {k \in 1..Len(CorpSuffixes) : SuffixSearch(original_name, CorpSuffixes[k]) > 0}
    IN  IF found = {} THEN <<>>
        ELSE LET k == CHOOSE x \in found : \A y \in found : x <= y
                 i == SuffixSearch(original_name, CorpSuffixes[k])
             IN  Match(original_name, i, SuffixPatternLen(original_name, i, CorpSuffixes[k]))

\* r'\b(Inc\.?|LLC|Ltd\.?|Corp\.?|Co\.?|GmbH|PLC)\b' at index i,
\* re.IGNORECASE: the alternatives are tried in order; \.? is greedy and is
\* given up when the closing \b fails behind the dot
SlugSuffixAltLen(t, i, p) ==
    LET n == Len(p.lit)
    IN  IF ~LitAt(t, i, p.lit, TRUE) THEN 0
        ELSE IF p.dot /\ In(t, i + n, {"."}) /\ Boundary(t, i + n + 1) THEN n + 1
        ELSE IF Boundary(t, i + n) THEN n
        ELSE 0

SlugSuffixLen(t, i) ==
    LET alts == {k \in 1..Len(CorpSuffixes) : SlugSuffixAltLen(t, i, CorpSuffixes[k]) > 0}
    IN  IF ~Boundary(t, i) \/ alts = {} THEN 0
        ELSE SlugSuffixAltLen(t, i, CorpSuffixes[CHOOSE k \in alts : \A j \in alts : k <= j])

\* str.strip(c)
RECURSIVE StripChars(_, _)
StripChars(t, S) ==
    IF t = <<>> THEN t
    ELSE IF t[1] \in S THEN StripChars(Tail(t), S)
    ELSE IF t[Len(t)] \in S THEN StripChars(SubSeq(t, 1, Len(t) - 1), S)
    ELSE t

\* re.sub of a run of characters of S (S+) by the string r
SubRuns(t, S, r) ==
    ReSub(t, [i \in 1..Len(t) |-> RunLen(t, i, S)], [i \in 1..Len(t) |-> r])

normalize_to_slug(name) ==
    LET cut == ReSub(name, [i \in 1..Len(name) |-> SlugSuffixLen(name, i)],
                           [i \in 1..Len(name) |-> <<>>])
        low == ToLower(cut)
        kept == SelectSeq(low, LAMBDA c : c \in Lower \cup Digit \cup Space \cup {"-"})
        hyph == SubRuns(kept, Space, <<"-">>)
        one == SubRuns(hyph, {"-"}, <<"-">>)
    IN  StripChars(one, {"-"})

\* the literal parts of the generated URLs
HTTPS == <<"h","t","t","p","s",":","/","/">>

DOT_EXAMPLE == <<".","e","x","a","m","p","l","e">>

PITCH_URL == <<"h","t","t","p","s",":","/","/","p","i","t","c","h",".","v","c","/","c","o","m","p","a","n","i","e","s","/">>

(***************************************************************************)
(* anonymize_bio (anonymize_mentors.py)                                    *)
(***************************************************************************)
HONORIFICS == <<<<"D","r",".">>, <<"P","r","o","f",".">>, <<"M","r",".">>, <<"M","s",".">>, <<"M","r","s",".">>>>

StartsWith(t, lit) == LitAt(t, 1, lit, FALSE)

\* extract_honorific(name): <<honorific, rest>>; <<>> stands for None
extract_honorific(name) ==
    LET n == StripChars(name, Space)
        hits == {k \in 1..Len(HONORIFICS) : StartsWith(n, HONORIFICS[k])}
    IN  IF hits = {} THEN <<<<>>, n>>
        ELSE LET h == HONORIFICS[CHOOSE k \in hits : \A j \in hits : k <= j]
             IN  <<h, StripChars(SubSeq(n, Len(h) + 1, Len(n)), Space)>>

\* str.split(): the words between runs of white space
Split(t) ==
    LET f[i \in 1..Len(t) + 1] ==
            IF i > Len(t) THEN <<>>
            ELSE IF t[i] \in Space THEN f[i + 1]
            ELSE LET n == RunLen(t, i, {c \in Range(t) : c \notin Space})
                 IN  <<Match(t, i, n)>> \o f[i + n]
    IN  f[1]

\* ' '.join(words)
RECURSIVE JoinSpace(_)
JoinSpace(ws) ==
    IF ws = <<>> THEN <<>>
    ELSE IF Len(ws) = 1 THEN ws[1]
    ELSE ws[1] \o <<" ">> \o JoinSpace(Tail(ws))

\* r'\b' + re.escape(lit) + r'\b' at index i (ic: re.IGNORECASE)
WordLitLen(t, i, lit, ic) ==
    IF Boundary(t, i) /\ LitAt(t, i, lit, ic) /\ Boundary(t, i + Len(lit))
    THEN Len(lit) ELSE 0

\* re.sub(r'\b' + re.escape(lit) + r'\b', repl, t)
SubWord(t, lit, repl, ic) ==
    ReSub(t, [i \in 1..Len(t) |-> WordLitLen(t, i, lit, ic)],
             [i \in 1..Len(t) |-> repl])

\* the first step: the person's own name
BioIdentity(text, original_name, new_first_name, new_last_name, new_full_name) ==
    LET name_without_honorific == extract_honorific(original_name)[2]
        name_parts == Split(name_without_honorific)
    IN  IF Len(name_parts) >= 2
        THEN LET first_name == name_parts[1]
                 last_name == JoinSpace(Tail(name_parts))
                 t1 == SubWord(text, name_without_honorific, new_full_name, TRUE)
                 t2 == SubWord(t1, first_name, new_first_name, TRUE)
             IN  SubWord(t2, last_name, new_last_name, TRUE)
        ELSE IF Len(name_parts) = 1
        THEN SubWord(text, name_parts[1], new_full_name, TRUE)
        ELSE text

PH_TECH == <<"[","T","e","c","h","n","o","l","o","g","y"," ","C","o","m","p","a","n","y","]">>

PH_FIN == <<"[","F","i","n","a","n","c","i","a","l"," ","I","n","s","t","i","t","u","t","i","o","n","]">>

PH_CONSULT == <<"[","C","o","n","s","u","l","t","i","n","g"," ","F","i","r","m","]">>

PH_INSUR == <<"[","I","n","s","u","r","a","n","c","e"," ","C","o","m","p","a","n","y","]">>

PH_UNIV == <<"[","U","n","i","v","e","r","s","i","t","y","]">>

PH_NETWORK == <<"[","I","n","v","e","s","t","m","e","n","t"," ","N","e","t","w","o","r","k","]">>

\* known_entities, in the order of the dict: the entries of the source's
\* table whose names the model's texts use, at least one of each category
known_entities ==
    << [entity |-> <<"G","o","o","g","l","e">>, replacement |-> PH_TECH],
       [entity |-> <<"I","B","M">>, replacement |-> PH_TECH],
       [entity |-> <<"B","o","x">>, replacement |-> PH_TECH],
       [entity |-> <<"M","o","n","d","a","y">>, replacement |-> PH_TECH],
       [entity |-> <<"H","P">>, replacement |-> PH_TECH],
       [entity |-> <<"G","o","l","d","m","a","n"," ","S","a","c","h","s">>, replacement |-> PH_FIN],
       [entity |-> <<"C","h","a","s","e">>, replacement |-> PH_FIN],
       [entity |-> <<"M","c","K","i","n","s","e","y">>, replacement |-> PH_CONSULT],
       [entity |-> <<"S","t","a","t","e"," ","F","a","r","m">>, replacement |-> PH_INSUR] >>

\* the loop over known_entities.items()
BioKnownEntities(text) ==
    LET f[k \in 0..Len(known_entities)] ==
            IF k = 0 THEN text
            ELSE SubWord(f[k - 1], known_entities[k].entity,
                         known_entities[k].replacement, TRUE)
    IN  f[Len(known_entities)]

Letter == Upper \cup Lower

\* camel_case_pattern r'\b[A-Z][a-z]+[A-Z][a-z]*(?:[A-Z][a-z]*)*\b' at i:
\* a capital, lower-case letters, a capital, then letters up to a \b
CamelCaseLen(t, i) ==
    LET low == RunLen(t, i + 1, Lower)
        j == i + 1 + low
        rest == RunLen(t, j + 1, Letter)
    IN  IF /\ Boundary(t, i)
           /\ In(t, i, Upper)
           /\ low >= 1
           /\ In(t, j, Upper)
           /\ ~WordAt(t, j + 1 + rest)
        THEN low + 2 + rest ELSE 0

CamelKeep == { <<"P","h","D">>, <<"M","B","A">>, <<"C","T","O">>, <<"C","E","O">>, <<"C","F","O">> }

CamelPlaceholderWords == 
    { <<"T","e","c","h","n","o","l","o","g","y">>, <<"C","o","m","p","a","n","y">>,
      <<"F","i","n","a","n","c","i","a","l">>, <<"I","n","s","t","i","t","u","t","i","o","n">>,
      <<"C","o","n","s","u","l","t","i","n","g">>, <<"F","i","r","m">>,
      <<"I","n","s","u","r","a","n","c","e">>, <<"I","n","v","e","s","t","m","e","n","t">>,
      <<"N","e","t","w","o","r","k">>, <<"U","n","i","v","e","r","s","i","t","y">> }

replace_camel_case(entity) ==
    IF entity \in CamelKeep THEN entity
    ELSE IF entity \in CamelPlaceholderWords THEN entity
    ELSE PH_TECH

\* acronym_pattern r'\b[A-Z]{3,}\b' at i
AcronymLen(t, i) ==
    LET n == RunLen(t, i, Upper)
    IN  IF Boundary(t, i) /\ n >= 3 /\ ~WordAt(t, i + n) THEN n ELSE 0

common_acronyms ==
    { <<"M","B","A">>, <<"P","h","D">>, <<"C","E","O">>, <<"C","F","O">>, <<"C","T","O">>,
      <<"C","O","O">>, <<"V","P">>, <<"S","V","P">>, <<"E","V","P">>, <<"C","P","A">>,
      <<"C","F","A">>, <<"J","D">>, <<"M","D">>, <<"R","N">>, <<"B","S">>, <<"B","A">>,
      <<"M","S">>, <<"M","A">>, <<"U","S","A">>, <<"N","Y","C">>, <<"I","T">>,
      <<"A","I">>, <<"M","L">>, <<"A","P","I">>, <<"A","W","S">>, <<"S","a","a","S">>,
      <<"B","I">>, <<"S","E","O">>, <<"S","Q","L">>, <<"N","o","S","Q","L">>,
      <<"I","o","T">>, <<"R","&","D">>, <<"M","&","A">>, <<"H","R">>, <<"P","R">>,
      <<"S","T","E","M">>, <<"S","B","I","R">>, <<"S","T","T","R">>, <<"N","S","F">>,
      <<"C","B","M">>, <<"A","S","A">>, <<"M","A","A","A">>, <<"C","R","M">>,
      <<"A","U","M">>, <<"A","V","s">>, <<"H","V","A","C">>, <<"D","E","C">>,
      <<"H","R","T","e","c","h">>, <<"I","n","s","u","r","T","e","c","h">>,
      <<"A","g","T","e","c","h">>, <<"M","A","U">>, <<"F","T","E">> }

replace_acronym(entity) ==
    IF entity \in common_acronyms THEN entity ELSE PH_TECH

\* multiword_pattern
\* r'\b(?:[A-Z][a-z]+\s+){1,4}(?:[A-Z][a-z]+|[A-Z]{2,})\b':
\* one repetition of the group [A-Z][a-z]+\s+ at index i
CapUnitLen(t, i) ==
    LET low == RunLen(t, i + 1, Lower)
        ws == RunLen(t, i + 1 + low, Space)
    IN  IF In(t, i, Upper) /\ low >= 1 /\ ws >= 1 THEN 1 + low + ws ELSE 0

\* the closing alternative (?:[A-Z][a-z]+|[A-Z]{2,})\b at index j
CapFinalLen(t, j) ==
    LET low == RunLen(t, j + 1, Lower)
        up == RunLen(t, j, Upper)
    IN  IF In(t, j, Upper) /\ low >= 1 /\ ~WordAt(t, j + 1 + low) THEN 1 + low
        ELSE IF up >= 2 /\ ~WordAt(t, j + up) THEN up
        ELSE 0

\* the whole pattern at index i: the group is greedy, the engine gives the
\* repetitions back one by one until the closing alternative matches
MultiwordLen(t, i) ==
    LET p[r \in 0..4] ==
            IF r = 0 THEN i
            ELSE IF p[r - 1] = 0 \/ CapUnitLen(t, p[r - 1]) = 0 THEN 0
            ELSE p[r - 1] + CapUnitLen(t, p[r - 1])
        ok == {r \in 1..4 : p[r] > 0 /\ CapFinalLen(t, p[r]) > 0}
    IN  IF ~Boundary(t, i) \/ ok = {} THEN 0
        ELSE LET r == CHOOSE x \in ok : \A y \in ok : y <= x
             IN  p[r] + CapFinalLen(t, p[r]) - i

\* word in entity_lower
Contains(t, lit) == \E i \in 1..Len(t) : LitAt(t, i, lit, FALSE)

SkipWords ==
    { <<"t","h","e">>, <<"a">>, <<"a","n">>, <<"i","n">>, <<"o","n">>, <<"a","t">>,
      <<"t","o">>, <<"f","o","r">>, <<"o","f">>, <<"a","n","d">>, <<"o","r">>,
      <<"b","u","t">> }

UniversityWords == { <<"u","n","i","v","e","r","s","i","t","y">>, <<"c","o","l","l","e","g","e">>,
      <<"s","c","h","o","o","l">>, <<"i","n","s","t","i","t","u","t","e">> }

FinancialWords ==
    { <<"b","a","n","k">>, <<"f","i","n","a","n","c","i","a","l">>,
      <<"c","a","p","i","t","a","l">>, <<"v","e","n","t","u","r","e","s">>,
      <<"p","a","r","t","n","e","r","s">>, <<"i","n","v","e","s","t","m","e","n","t">>,
      <<"f","u","n","d">>, <<"e","q","u","i","t","y">> }

ConsultingWords == { <<"c","o","n","s","u","l","t","i","n","g">>, <<"a","d","v","i","s","o","r","s">>,
      <<"a","d","v","i","s","o","r","y">> }

InsuranceWords == { <<"i","n","s","u","r","a","n","c","e">>, <<"l","i","f","e">> }

\* skip_patterns r'^(the|a|...)\s' and r'\s(the|a|...)$' on entity_lower
SkipPattern(entity_lower) ==
    \/ \E w \in SkipWords :
          /\ LitAt(entity_lower, 1, w, FALSE)
          /\ In(entity_lower, Len(w) + 1, Space)
    \/ \E w \in SkipWords :
          /\ LitAt(entity_lower, Len(entity_lower) - Len(w) + 1, w, FALSE)
          /\ In(entity_lower, Len(entity_lower) - Len(w), Space)

replace_multiword(entity) ==
    LET entity_lower == ToLower(entity)
    IN  IF SkipPattern(entity_lower) THEN entity
        ELSE IF \E w \in UniversityWords : Contains(entity_lower, w) THEN PH_UNIV
        ELSE IF \E w \in FinancialWords : Contains(entity_lower, w) THEN PH_FIN
        ELSE IF \E w \in ConsultingWords : Contains(entity_lower, w) THEN PH_CONSULT
        ELSE IF \E w \in InsuranceWords : Contains(entity_lower, w) THEN PH_INSUR
        ELSE IF Contains(entity_lower, <<"a","n","g","e","l">>) /\ Contains(entity_lower, <<"n","e","t","w","o","r","k">>)
             THEN PH_NETWORK
        ELSE PH_TECH

PH_WEBSITE == <<"[","w","e","b","s","i","t","e","]">>

PH_EMAIL == <<"[","e","m","a","i","l","]">>

PH_PHONE == <<"[","p","h","o","n","e","]">>

\* [^\s,]
UrlChars(t) == {c \in Range(t) : c \notin Space \cup {","}}

\* r'https?://[^\s,]+' at index i
HttpUrlLen(t, i) ==
    LET h == IF LitAt(t, i, <<"h","t","t","p","s",":","/","/">>, FALSE) THEN 8
             ELSE IF LitAt(t, i, <<"h","t","t","p",":","/","/">>, FALSE) THEN 7 ELSE 0
        n == RunLen(t, i + h, UrlChars(t))
    IN  IF h > 0 /\ n >= 1 THEN h + n ELSE 0

\* r'www\.[^\s,]+' at index i
WwwUrlLen(t, i) ==
    LET n == RunLen(t, i + 4, UrlChars(t))
    IN  IF LitAt(t, i, <<"w","w","w",".">>, FALSE) /\ n >= 1 THEN 4 + n ELSE 0

EmailLocalChars == Letter \cup Digit \cup {".", "_", "%", "+", "-"}

EmailDomainChars == Letter \cup Digit \cup {".", "-"}

\* [A-Z|a-z]: the bar is a member of the class
EmailTldChars == Letter \cup {"|"}

\* r'\b[A-Za-z0-9._%+-]+@[A-Za-z0-9.-]+\.[A-Z|a-z]{2,}\b' at index i: the
\* local part runs to the @; the domain and the last label are greedy, the
\* engine shortens the label first and the domain next
EmailLen(t, i) ==
    LET loc == RunLen(t, i, EmailLocalChars)
        p == i + loc + 1
        dom == RunLen(t, p, EmailDomainChars)
        TldLen(d) ==
            LET run == RunLen(t, p + d + 1, EmailTldChars)
                es == {e \in 2..run : Boundary(t, p + d + 1 + e)}
            IN  IF es = {} THEN 0 ELSE CHOOSE e \in es : \A x \in es : x <= e
        ds == {d \in 1..dom - 1 : t[p + d] = "." /\ TldLen(d) > 0}
    IN  IF ~Boundary(t, i) \/ loc = 0 \/ ~In(t, i + loc, {"@"}) \/ ds = {} THEN 0
        ELSE LET d == CHOOSE x \in ds : \A y \in ds : y <= x
             IN  loc + 1 + d + 1 + TldLen(d)

\* [-.]? at index i
OptSepLen(t, i) == IF In(t, i, {"-", "."}) THEN 1 ELSE 0

\* \d{n} at index i
DigitsAt(t, i, n) == \A k \in 0..n - 1 : In(t, i + k, Digit)

\* \d{3}[-.]?\d{4} at index i
PhoneTailLen(t, i) ==
    LET s == OptSepLen(t, i + 3)
    IN  IF DigitsAt(t, i, 3) /\ DigitsAt(t, i + 3 + s, 4) THEN 7 + s ELSE 0

\* r'\b\d{3}[-.]?\d{3}[-.]?\d{4}\b' at index i
PhoneLen(t, i) ==
    LET s == OptSepLen(t, i + 3)
        n == PhoneTailLen(t, i + 3 + s)
    IN  IF /\ Boundary(t, i)
           /\ DigitsAt(t, i, 3)
           /\ n > 0
           /\ Boundary(t, i + 3 + s + n)
        THEN 3 + s + n ELSE 0

\* r'\(\d{3}\)\s*\d{3}[-.]?\d{4}' at index i
ParenPhoneLen(t, i) ==
    LET ws == RunLen(t, i + 5, Space)
        n == PhoneTailLen(t, i + 5 + ws)
    IN  IF /\ In(t, i, {"("})
           /\ DigitsAt(t, i + 1, 3)
           /\ In(t, i + 4, {")"})
           /\ n > 0
        THEN 5 + ws + n ELSE 0

\* the passes of anonymize_bio behind the person's own name
BioCamelCase(t) ==
    ReSub(t, [i \in 1..Len(t) |-> CamelCaseLen(t, i)],
             [i \in 1..Len(t) |-> replace_camel_case(Match(t, i, CamelCaseLen(t, i)))])

BioAcronyms(t) ==
    ReSub(t, [i \in 1..Len(t) |-> AcronymLen(t, i)],
             [i \in 1..Len(t) |-> replace_acronym(Match(t, i, AcronymLen(t, i)))])

BioMultiword(t) ==
    ReSub(t, [i \in 1..Len(t) |-> MultiwordLen(t, i)],
             [i \in 1..Len(t) |-> replace_multiword(Match(t, i, MultiwordLen(t, i)))])

BioContacts(t) ==
    LET t1 == ReSub(t, [i \in 1..Len(t) |-> HttpUrlLen(t, i)],
                       [i \in 1..Len(t) |-> PH_WEBSITE])
        t2 == ReSub(t1, [i \in 1..Len(t1) |-> WwwUrlLen(t1, i)],
                        [i \in 1..Len(t1) |-> PH_WEBSITE])
        t3 == ReSub(t2, [i \in 1..Len(t2) |-> EmailLen(t2, i)],
                        [i \in 1..Len(t2) |-> PH_EMAIL])
        t4 == ReSub(t3, [i \in 1..Len(t3) |-> PhoneLen(t3, i)],
                        [i \in 1..Len(t3) |-> PH_PHONE])
    IN  ReSub(t4, [i \in 1..Len(t4) |-> ParenPhoneLen(t4, i)],
                  [i \in 1..Len(t4) |-> PH_PHONE])

anonymize_bio(bio, original_name, new_first_name, new_last_name, new_full_name) ==
    IF bio = <<>> THEN bio
    ELSE LET t1 == BioIdentity(bio, original_name, new_first_name,
                               new_last_name, new_full_name)
             t2 == BioKnownEntities(t1)
             t3 == BioCamelCase(t2)
             t4 == BioAcronyms(t3)
             t5 == BioMultiword(t4)
         IN  BioContacts(t5)

(***************************************************************************)
(* randomize_funding_round (anonymize_portfolio.py)                        *)
(***************************************************************************)
rounds == <<<<"A","n","g","e","l">>,
           <<"P","r","e","-","S","e","e","d">>,
           <<"S","e","e","d">>,
           <<"S","e","r","i","e","s"," ","A">>,
           <<"S","e","r","i","e","s"," ","B">>,
           <<"S","e","r","i","e","s"," ","C">>>>

SERIES_SPACE == <<"S","e","r","i","e","s"," ">>

\* r'\b(Angel|Pre-Seed|Seed|Series [A-Z])\b' with re.IGNORECASE at index i:
\* the alternatives in their order, each closed by the \b
RoundMatchLen(t, i) ==
    LET fixed == {k \in 1..3 : /\ LitAt(t, i, rounds[k], TRUE)
                               /\ Boundary(t, i + Len(rounds[k]))}
    IN  IF ~Boundary(t, i) THEN 0
        ELSE IF fixed # {} THEN Len(rounds[CHOOSE k \in fixed : \A j \in fixed : k <= j])
        ELSE IF /\ LitAt(t, i, SERIES_SPACE, TRUE)
                /\ In(t, i + 7, Letter)
                /\ Boundary(t, i + 8)
             THEN 8
        ELSE 0

\* mutant of NewIndexes: the offset is drawn from -2..2
NewIndexes_Wide(i) == {Max2(0, Min2(Len(rounds) - 1, i + r)) : r \in -2..2}

\* max(0, min(len(rounds)-1, i + random.randint(-1, 1))), i counted from 0
NewIndexes(i) == {Max2(0, Min2(Len(rounds) - 1, i + r)) : r \in -1..1}

\* replace_round(match): the strings it can return
replace_round(original) ==
    LET hits == {k \in 1..Len(rounds) : Contains(ToLower(original), ToLower(rounds[k]))}
    IN  IF hits = {} THEN {original}
        ELSE LET k == CHOOSE x \in hits : \A y \in hits : x <= y
             IN  {rounds[j + 1] : j \in NewIndexes(k - 1)}

randomize_funding_round(t) ==
    ReSubAll(t, [i \in 1..Len(t) |-> RoundMatchLen(t, i)],
                [i \in 1..Len(t) |-> replace_round(Match(t, i, RoundMatchLen(t, i)))])

(***************************************************************************)
(* anonymize_description (anonymize_portfolio.py)                          *)
(***************************************************************************)
PH_PRODUCT == <<"[","P","r","o","d","u","c","t","]">>

QUOTE == "\""

\* the characters U+00AE and U+2122 of the patterns, by their ASCII names
REGISTERED == "(R)"

TRADEMARK == "(TM)"

\* str.replace(old, new) and re.sub of an escaped literal without \b
SubLit(t, lit, repl) ==
    ReSub(t, [i \in 1..Len(t) |-> IF LitAt(t, i, lit, FALSE) THEN Len(lit) ELSE 0],
             [i \in 1..Len(t) |-> repl])

\* text.replace('\n', ' ').replace('\r', ' '), re.sub(r'\s+', ' ', text)
\* and strip()
DescWhitespace(t) ==
    LET flat == [i \in 1..Len(t) |-> IF t[i] \in {"\n", "\r"} THEN " " ELSE t[i]]
    IN  StripChars(SubRuns(flat, Space, <<" ">>), Space)

\* [^\s,)\]]
DescUrlChars(t) == {c \in Range(t) : c \notin Space \cup {",", ")", "]"}}

\* r'https?://[^\s,)\]]+' at index i
DescHttpUrlLen(t, i) ==
    LET h == IF LitAt(t, i, HTTPS, FALSE) THEN 8
             ELSE IF LitAt(t, i, <<"h","t","t","p",":","/","/">>, FALSE) THEN 7 ELSE 0
        n == RunLen(t, i + h, DescUrlChars(t))
    IN  IF h > 0 /\ n >= 1 THEN h + n ELSE 0

\* r'www\.[^\s,)\]]+' at index i
DescWwwUrlLen(t, i) ==
    LET n == RunLen(t, i + 4, DescUrlChars(t))
    IN  IF LitAt(t, i, <<"w","w","w",".">>, FALSE) /\ n >= 1 THEN 4 + n ELSE 0

\* the URL step: nothing is done for an empty new_website
DescUrls(t, new_website) ==
    IF new_website = <<>> THEN t
    ELSE LET t1 == ReSub(t, [i \in 1..Len(t) |-> DescHttpUrlLen(t, i)],
                            [i \in 1..Len(t) |-> new_website])
         IN  ReSub(t1, [i \in 1..Len(t1) |-> DescWwwUrlLen(t1, i)],
                       [i \in 1..Len(t1) |-> SubLit(new_website, HTTPS, <<>>)])

\* r'\b([A-Z][a-z]+)/([a-z])(R)' at index i
TrademarkLen(t, i) ==
    LET low == RunLen(t, i + 1, Lower)
    IN  IF /\ Boundary(t, i)
           /\ In(t, i, Upper)
           /\ low >= 1
           /\ In(t, i + 1 + low, {"/"})
           /\ In(t, i + 2 + low, Lower)
           /\ In(t, i + 3 + low, {REGISTERED})
        THEN low + 4 ELSE 0

DescTrademarks(t) ==
    ReSub(t, [i \in 1..Len(t) |-> TrademarkLen(t, i)],
             [i \in 1..Len(t) |-> PH_PRODUCT])

\* base_original, base_new: the name without the corporate suffixes, stripped
BaseName(name) ==
    StripChars(ReSub(name, [i \in 1..Len(name) |-> SlugSuffixLen(name, i)],
                           [i \in 1..Len(name) |-> <<>>]), Space)

\* the replacement of the full name and of the base name
DescIdentity(t, original_name, new_name) ==
    LET base_original == BaseName(original_name)
        base_new == BaseName(new_name)
        t1 == SubWord(t, original_name, new_name, TRUE)
    IN  IF base_original # <<>> THEN SubWord(t1, base_original, base_new, TRUE)
        ELSE t1

\* [A-Z][a-z]+ at index i
CapWordLen(t, i) ==
    LET low == RunLen(t, i + 1, Lower)
    IN  IF In(t, i, Upper) /\ low >= 1 THEN 1 + low ELSE 0

\* ([A-Z][a-z]+(?:-[A-Z][a-z]+)?) at index i, followed by a character of S
VariantLen(t, i, S) ==
    LET a == CapWordLen(t, i)
        b == IF In(t, i + a, {"-"}) THEN CapWordLen(t, i + a + 1) ELSE 0
    IN  IF a = 0 THEN 0
        ELSE IF b > 0 /\ In(t, i + a + 1 + b, S) THEN a + 1 + b
        ELSE IF In(t, i + a, S) THEN a
        ELSE 0

\* the verbs of the second and third beginning pattern
BeginVerbs == <<<<"i","s">>, <<"w","a","s">>>>

\* re.search(beginning_patterns[k], text): match.group(1), <<>> without a
\* match.  k = 1: r'^At\s+(...),' ; k = 2, 3: r'^(...)\s+is\s+', r'^(...)\s+was\s+'
BeginVariant(t, k) ==
    IF k = 1
    THEN LET ws == RunLen(t, 3, Space)
             n == VariantLen(t, 3 + ws, {","})
         IN  IF LitAt(t, 1, <<"A","t">>, FALSE) /\ ws >= 1 /\ n > 0
             THEN Match(t, 3 + ws, n) ELSE <<>>
    ELSE LET verb == BeginVerbs[k - 1]
             n == VariantLen(t, 1, Space)
             ws == RunLen(t, 1 + n, Space)
         IN  IF /\ n > 0
                /\ LitAt(t, 1 + n + ws, verb, FALSE)
                /\ In(t, 1 + n + ws + Len(verb), Space)
             THEN Match(t, 1, n) ELSE <<>>

\* the initials of the words: the first character of a word if it is a digit
\* (where digits are kept) or, in upper case, if it is a letter
Initials(words, digits) ==
    LET f[k \in 0..Len(words)] ==
            IF k = 0 THEN <<>>
            ELSE LET c == words[k][1]
                 IN  IF c \in Digit THEN (IF digits THEN Append(f[k - 1], c) ELSE f[k - 1])
                     ELSE IF c \in Letter THEN Append(f[k - 1], UpperChar(c))
                     ELSE f[k - 1]
    IN  f[Len(words)]

Quoted(s) == <<QUOTE>> \o s \o <<QUOTE>>

\* the acronym of the original name and its replacement
DescAcronym(t, base_original, base_new) ==
    LET words == Split(base_original)
        acronym == Initials(words, TRUE)
        new_acronym == Initials(Split(base_new), TRUE)
        repl == IF new_acronym # <<>> THEN new_acronym ELSE base_new
    IN  IF Len(words) >= 2 /\ Len(acronym) >= 2
        THEN SubLit(SubWord(t, acronym, repl, FALSE), Quoted(acronym), Quoted(repl))
        ELSE t

\* re.findall of a pattern with one group that spans the match without its
\* first and last character: the groups, from the left
FindAllInner(t, ml) ==
    LET f[i \in 1..Len(t) + 1] ==
            LET j == NextMatch(t, ml, i)
            IN  IF j = 0 THEN <<>>
                ELSE <<SubSeq(t, j + 1, j + ml[j] - 2)>> \o f[j + ml[j]]
    IN  f[1]

\* quote_pattern r'["""]([A-Z0-9-]+)["""]' at index i
QuoteAbbrevLen(t, i) ==
    LET n == RunLen(t, i + 1, Upper \cup Digit \cup {"-"})
    IN  IF In(t, i, {QUOTE}) /\ n >= 1 /\ In(t, i + 1 + n, {QUOTE}) THEN n + 2 ELSE 0

\* product_quote_pattern r'["""]([A-Z][a-zA-Z0-9/(R)(TM)-]*)["""]' at index i
QuoteProductLen(t, i) ==
    LET n == RunLen(t, i + 2, Letter \cup Digit \cup {"/", REGISTERED, TRADEMARK, "-"})
    IN  IF In(t, i, {QUOTE}) /\ In(t, i + 1, Upper) /\ In(t, i + 2 + n, {QUOTE})
        THEN n + 3 ELSE 0

\* text[:n]
Prefix(t, n) == SubSeq(t, 1, Min2(n, Len(t)))

\* match.isupper() and len(match) <= 10
IsShortUpper(m) == Len(m) <= 10 /\ Range(m) \cap Upper # {} /\ Range(m) \cap Lower = {}

\* the abbreviations in quotes within the first 200 characters
DescQuotedAbbrevs(t, base_new) ==
    LET head == Prefix(t, 200)
        matches == FindAllInner(head, [i \in 1..Len(head) |-> QuoteAbbrevLen(head, i)])
        initials == Initials(Split(base_new), FALSE)
        new_abbrev == IF initials # <<>> THEN initials ELSE ToUpper(Prefix(base_new, 3))
        f[k \in 0..Len(matches)] ==
            IF k = 0 THEN t
            ELSE IF IsShortUpper(matches[k])
                 THEN SubLit(SubWord(f[k - 1], matches[k], new_abbrev, FALSE),
                             Quoted(matches[k]), Quoted(new_abbrev))
                 ELSE f[k - 1]
    IN  f[Len(matches)]

\* the product names in quotes within the first 300 characters
DescQuotedProducts(t) ==
    LET head == Prefix(t, 300)
        matches == FindAllInner(head, [i \in 1..Len(head) |-> QuoteProductLen(head, i)])
        f[k \in 0..Len(matches)] ==
            IF k = 0 THEN t
            ELSE IF IsShortUpper(matches[k]) THEN f[k - 1]
                 ELSE SubLit(f[k - 1], Quoted(matches[k]), Quoted(PH_PRODUCT))
    IN  f[Len(matches)]

\* the body of the loop over beginning_patterns, for the pattern k
DescBeginningTurn(t, k, base_original, base_new) ==
    LET variant == BeginVariant(t, k)
        t1 == IF variant # <<>> THEN SubWord(t, variant, base_new, FALSE) ELSE t
        t2 == DescAcronym(t1, base_original, base_new)
        t3 == DescQuotedAbbrevs(t2, base_new)
    IN  DescQuotedProducts(t3)

\* the loop over the three beginning_patterns
DescBeginning(t, base_original, base_new) ==
    LET f[k \in 0..3] ==
            IF k = 0 THEN t
            ELSE DescBeginningTurn(f[k - 1], k, base_original, base_new)
    IN  f[3]

\* common_words of anonymize_description
common_words ==
    { <<"A">>, <<"A","n">>, <<"T","h","e">>, <<"I","n">>, <<"O","n">>, <<"A","t">>,
      <<"T","o">>, <<"F","o","r">>, <<"O","f">>, <<"A","n","d">>, <<"O","r">>,
      <<"B","u","t">>, <<"A","s">>, <<"B","y">>, <<"W","i","t","h">>,
      <<"F","r","o","m">>, <<"A","b","o","u","t">>, <<"I","n","t","o">>,
      <<"T","h","r","o","u","g","h">>, <<"D","u","r","i","n","g">>,
      <<"B","e","f","o","r","e">>, <<"A","f","t","e","r">>, <<"A","b","o","v","e">>,
      <<"B","e","l","o","w">>, <<"U","p">>, <<"D","o","w","n">>, <<"O","u","t">>,
      <<"O","f","f">>, <<"O","v","e","r">>, <<"U","n","d","e","r">>,
      <<"A","g","a","i","n">>, <<"F","u","r","t","h","e","r">>, <<"T","h","e","n">>,
      <<"O","n","c","e">>, <<"H","e","r","e">>, <<"T","h","e","r","e">>,
      <<"W","h","e","n">>, <<"W","h","e","r","e">>, <<"W","h","y">>,
      <<"H","o","w">>, <<"A","l","l">>, <<"B","o","t","h">>, <<"E","a","c","h">>,
      <<"F","e","w">>, <<"M","o","r","e">>, <<"M","o","s","t">>, <<"O","t","h","e","r">>,
      <<"S","o","m","e">>, <<"S","u","c","h">>, <<"N","o">>, <<"N","o","r">>,
      <<"N","o","t">>, <<"O","n","l","y">>, <<"O","w","n">>, <<"S","a","m","e">>,
      <<"S","o">>, <<"T","h","a","n">>, <<"T","o","o">>, <<"V","e","r","y">>,
      <<"C","a","n">>, <<"W","i","l","l">>, <<"J","u","s","t">>, <<"S","h","o","u","l","d">>,
      <<"N","o","w">>, <<"O","u","r">>, <<"W","e">>, <<"T","h","e","y">>,
      <<"H","e">>, <<"S","h","e">>, <<"I","t">>, <<"I">>, <<"Y","o","u">>,
      <<"Y","o","u","r">>, <<"T","h","e","i","r">>, <<"H","i","s">>,
      <<"H","e","r">>, <<"I","t","s">>, <<"M","y">>, <<"T","h","i","s">>,
      <<"T","h","a","t">>, <<"T","h","e","s","e">>, <<"T","h","o","s","e">>,
      <<"W","h","a","t">>, <<"W","h","i","c","h">>, <<"W","h","o">>,
      <<"W","h","o","m">>, <<"C","E","O">>, <<"C","T","O">>, <<"C","F","O">>,
      <<"C","O","O">>, <<"V","P">>, <<"D","i","r","e","c","t","o","r">>,
      <<"M","a","n","a","g","e","r">>, <<"P","r","e","s","i","d","e","n","t">>,
      <<"C","h","i","e","f">>, <<"S","e","n","i","o","r">>, <<"J","u","n","i","o","r">>,
      <<"L","e","a","d">>, <<"H","e","a","d">>, <<"E","x","e","c","u","t","i","v","e">>,
      <<"O","f","f","i","c","e","r">>, <<"T","e","a","m">>, <<"C","o","m","p","a","n","y">>,
      <<"B","u","s","i","n","e","s","s">>, <<"P","r","o","d","u","c","t">>,
      <<"S","e","r","v","i","c","e">>, <<"P","l","a","t","f","o","r","m">>,
      <<"T","e","c","h","n","o","l","o","g","y">>, <<"S","o","f","t","w","a","r","e">>,
      <<"H","a","r","d","w","a","r","e">>, <<"S","y","s","t","e","m">>,
      <<"S","o","l","u","t","i","o","n">>, <<"T","o","o","l">>, <<"A","p","p","l","i","c","a","t","i","o","n">>,
      <<"A","p","p">>, <<"W","e","b","s","i","t","e">>, <<"S","i","t","e">>,
      <<"N","e","t","w","o","r","k">>, <<"D","i","g","i","t","a","l">>,
      <<"O","n","l","i","n","e">>, <<"M","o","b","i","l","e">>, <<"C","l","o","u","d">>,
      <<"D","a","t","a">>, <<"A","I">>, <<"M","L">>, <<"A","n","a","l","y","t","i","c","s">>,
      <<"A","P","I">>, <<"S","D","K">>, <<"S","a","a","S">>, <<"P","a","a","S">>,
      <<"I","a","a","S">>, <<"I","o","T">>, <<"V","R">>, <<"A","R">>,
      <<"X","R">>, <<"B","2","B">>, <<"B","2","C">>, <<"B","2","G">>,
      <<"S","E","O">>, <<"S","E","M">>, <<"C","R","M">>, <<"E","R","P">>,
      <<"C","M","S">>, <<"S","Q","L">>, <<"N","o","S","Q","L">>, <<"A","W","S">>,
      <<"A","z","u","r","e">>, <<"G","C","P">>, <<"A","u","s","t","i","n">>,
      <<"D","a","l","l","a","s">>, <<"H","o","u","s","t","o","n">>,
      <<"T","e","x","a","s">>, <<"C","a","l","i","f","o","r","n","i","a">>,
      <<"Y","o","r","k">>, <<"A","m","e","r","i","c","a">>, <<"U","S">>,
      <<"U","S","A">>, <<"U","n","i","t","e","d">>, <<"S","t","a","t","e","s">>,
      <<"S","a","n">>, <<"F","r","a","n","c","i","s","c","o">>, <<"L","o","s">>,
      <<"A","n","g","e","l","e","s">>, <<"S","e","a","t","t","l","e">>,
      <<"B","o","s","t","o","n">>, <<"C","h","i","c","a","g","o">>,
      <<"D","e","n","v","e","r">>, <<"A","t","l","a","n","t","a">>,
      <<"M","i","a","m","i">>, <<"P","h","o","e","n","i","x">>, <<"P","o","r","t","l","a","n","d">>,
      <<"F","i","r","s","t">>, <<"L","a","s","t">>, <<"N","e","x","t">>,
      <<"N","e","w">>, <<"O","l","d">>, <<"G","o","o","d">>, <<"B","e","t","t","e","r">>,
      <<"B","e","s","t">>, <<"G","r","e","a","t">>, <<"L","e","a","d","i","n","g">>,
      <<"T","o","p">>, <<"W","o","r","l","d">>, <<"G","l","o","b","a","l">>,
      <<"I","n","t","e","r","n","a","t","i","o","n","a","l">>, <<"N","a","t","i","o","n","a","l">>,
      <<"L","o","c","a","l">>, <<"E","n","t","e","r","p","r","i","s","e">>,
      <<"C","o","n","s","u","m","e","r">>, <<"C","o","m","m","e","r","c","i","a","l">>,
      <<"I","n","d","u","s","t","r","i","a","l">>, <<"P","r","o","f","e","s","s","i","o","n","a","l">>,
      <<"A","d","v","a","n","c","e","d">>, <<"M","o","d","e","r","n">>,
      <<"S","m","a","r","t">>, <<"I","n","n","o","v","a","t","i","v","e">>,
      <<"R","e","v","o","l","u","t","i","o","n","a","r","y">>, <<"C","u","t","t","i","n","g">>,
      <<"E","d","g","e">>, <<"S","t","a","t","e">>, <<"A","r","t">>,
      <<"I","n","d","u","s","t","r","y">>, <<"M","a","r","k","e","t">>,
      <<"S","e","c","t","o","r">>, <<"S","p","a","c","e">>, <<"F","i","e","l","d">>,
      <<"A","r","e","a">>, <<"D","o","m","a","i","n">>, <<"V","e","r","t","i","c","a","l">>,
      <<"H","o","r","i","z","o","n","t","a","l">>, <<"E","n","d">>,
      <<"U","s","e","r">>, <<"C","u","s","t","o","m","e","r">>, <<"C","l","i","e","n","t">>,
      <<"P","a","r","t","n","e","r">>, <<"V","e","n","d","o","r">>,
      <<"P","r","o","v","i","d","e","r">>, <<"S","u","p","p","l","i","e","r">>,
      <<"D","e","v","e","l","o","p","e","r">>, <<"Y","e","a","r">>,
      <<"Y","e","a","r","s">>, <<"M","o","n","t","h">>, <<"M","o","n","t","h","s">>,
      <<"D","a","y">>, <<"D","a","y","s">>, <<"W","e","e","k">>, <<"W","e","e","k","s">>,
      <<"J","a","n","u","a","r","y">>, <<"F","e","b","r","u","a","r","y">>,
      <<"M","a","r","c","h">>, <<"A","p","r","i","l">>, <<"M","a","y">>,
      <<"J","u","n","e">>, <<"J","u","l","y">>, <<"A","u","g","u","s","t">>,
      <<"S","e","p","t","e","m","b","e","r">>, <<"O","c","t","o","b","e","r">>,
      <<"N","o","v","e","m","b","e","r">>, <<"D","e","c","e","m","b","e","r">>,
      <<"M","o","n","d","a","y">>, <<"T","u","e","s","d","a","y">>,
      <<"W","e","d","n","e","s","d","a","y">>, <<"T","h","u","r","s","d","a","y">>,
      <<"F","r","i","d","a","y">>, <<"S","a","t","u","r","d","a","y">>,
      <<"S","u","n","d","a","y">>, <<"D","r">>, <<"M","r">>, <<"M","s">>,
      <<"M","r","s">>, <<"P","r","o","f">>, <<"I","n","c">>, <<"L","L","C">>,
      <<"L","t","d">>, <<"C","o","r","p">>, <<"C","o">> }

\* sentence_starters of should_anonymize_word
sentence_starters ==
    { <<"F","o","l","l","o","w","i","n","g">>, <<"O","f","t","e","n">>,
      <<"D","e","s","p","i","t","e">>, <<"I","n","s","t","e","a","d">>,
      <<"T","h","u","s">>, <<"B","a","s","e","d">>, <<"A","d","d","i","t","i","o","n","a","l","l","y">>,
      <<"H","o","w","e","v","e","r">>, <<"T","h","e","r","e","f","o","r","e">>,
      <<"F","u","r","t","h","e","r","m","o","r","e">>, <<"M","o","r","e","o","v","e","r">>,
      <<"M","e","a","n","w","h","i","l","e">>, <<"C","u","r","r","e","n","t","l","y">>,
      <<"R","e","c","e","n","t","l","y">>, <<"F","i","n","a","l","l","y">>,
      <<"I","n","i","t","i","a","l","l","y">>, <<"G","e","n","e","r","a","l","l","y">>,
      <<"T","y","p","i","c","a","l","l","y">>, <<"E","s","s","e","n","t","i","a","l","l","y">>,
      <<"S","p","e","c","i","f","i","c","a","l","l","y">>, <<"P","a","r","t","i","c","u","l","a","r","l","y">>,
      <<"N","o","t","a","b","l","y">>, <<"I","m","p","o","r","t","a","n","t","l","y">>,
      <<"F","o","r","t","u","n","a","t","e","l","y">>, <<"U","n","f","o","r","t","u","n","a","t","e","l","y">>,
      <<"E","x","i","s","t","i","n","g">>, <<"S","i","n","c","e">>,
      <<"W","h","i","l","e">>, <<"A","l","t","h","o","u","g","h">>,
      <<"B","e","c","a","u","s","e">>, <<"T","h","r","o","u","g","h">>,
      <<"D","u","r","i","n","g">>, <<"A","f","t","e","r">>, <<"B","e","f","o","r","e">>,
      <<"W","i","t","h","i","n">>, <<"W","i","t","h","o","u","t">>,
      <<"B","e","y","o","n","d">>, <<"A","m","e","r","i","c","a","n","s">>,
      <<"P","e","o","p","l","e">>, <<"U","s","e","r","s">>, <<"C","u","s","t","o","m","e","r","s">>,
      <<"C","l","i","e","n","t","s">>, <<"C","o","m","p","a","n","i","e","s">>,
      <<"B","u","s","i","n","e","s","s","e","s">>, <<"O","r","g","a","n","i","z","a","t","i","o","n","s">>,
      <<"I","n","d","i","v","i","d","u","a","l","s">>, <<"T","e","a","m","s">>,
      <<"M","e","m","b","e","r","s">>, <<"F","o","r","c","e">>, <<"N","a","v","y">>,
      <<"A","r","m","y">>, <<"M","a","r","i","n","e","s">>, <<"C","o","a","s","t">>,
      <<"G","u","a","r","d">>, <<"F","o","u","n","d","e","d">> }

\* should_anonymize_word(word), for a word found by r'\b[A-Z][a-zA-Z0-9]*\b'
should_anonymize_word(word) ==
    IF word \in common_words THEN FALSE
    ELSE IF Range(word) \subseteq Digit THEN FALSE
    ELSE IF Len(word) <= 2 THEN FALSE
    ELSE IF word[1] \notin Upper THEN FALSE
    ELSE IF In(word, 2 + RunLen(word, 2, Lower), Upper) THEN TRUE
    ELSE IF RunLen(word, 2, Lower) = Len(word) - 1 /\ Len(word) >= 4
         THEN word \notin sentence_starters
    ELSE FALSE

\* r'\b[A-Z][a-zA-Z0-9]*\b' at index i
CapTokenLen(t, i) ==
    LET n == RunLen(t, i + 1, Letter \cup Digit)
    IN  IF Boundary(t, i) /\ In(t, i, Upper) /\ ~WordAt(t, i + 1 + n) THEN 1 + n ELSE 0

\* unique_proper_nouns: the capitalised words of the text to anonymize
unique_proper_nouns(t) ==
    {w \in {Match(t, i, CapTokenLen(t, i)) : i \in {j \in 1..Len(t) : CapTokenLen(t, j) > 0}} :
        should_anonymize_word(w)}

Titles == { <<"D","r",".">>, <<"P","r","o","f",".">>, <<"M","r",".">>, <<"M","s",".">>,
      <<"M","r","s",".">> }

\* re.search of title_pattern
\* r'\b(Dr\.|Prof\.|Mr\.|Ms\.|Mrs\.)\s+' + re.escape(proper_noun) + r'\b'
TitleBefore(t, proper_noun) ==
    \E i \in 1..Len(t) : \E title \in Titles :
        LET ws == RunLen(t, i + Len(title), Space)
        IN  /\ Boundary(t, i)
            /\ LitAt(t, i, title, FALSE)
            /\ ws >= 1
            /\ LitAt(t, i + Len(title) + ws, proper_noun, FALSE)
            /\ Boundary(t, i + Len(title) + ws + Len(proper_noun))

\* the first entries of random_first_names and random_last_names
random_first_names == { <<"A","l","e","x">>, <<"J","o","r","d","a","n">> }

random_last_names == { <<"S","m","i","t","h">>, <<"J","o","h","n","s","o","n">> }

\* one turn of the loop over unique_proper_nouns: the texts it can leave
DescProperNoun(t, proper_noun) ==
    IF TitleBefore(t, proper_noun)
    THEN {SubWord(t, proper_noun, random_name, FALSE) :
            random_name \in IF Len(proper_noun) < 8 THEN random_first_names
                            ELSE random_last_names}
    ELSE {SubWord(t, proper_noun, PH_PRODUCT, FALSE)}

\* the orders in which a set can be iterated
Orders(S) ==
    {o \in [1..Cardinality(S) -> S] : \A a, b \in 1..Cardinality(S) : o[a] = o[b] => a = b}

\* the loop over unique_proper_nouns, a set: every order of iteration
DescProperNouns(t) ==
    LET nouns == unique_proper_nouns(t)
        Loop(o) ==
            LET f[k \in 0..Len(o)] ==
                    IF k = 0 THEN {t}
                    ELSE UNION {DescProperNoun(x, o[k]) : x \in f[k - 1]}
            IN  f[Len(o)]
    IN  UNION {Loop(o) : o \in Orders(nouns)}

\* randomize_amount, randomize_dates and randomize_funding_round in a row
DescValues(t) ==
    UNION {UNION {randomize_funding_round(c) : c \in randomize_dates(b)} :
              b \in randomize_amount(t)}

\* anonymize_description: the texts it can return
anonymize_description(description, original_name, new_name, new_website) ==
    IF description = <<>> THEN {description}
    ELSE LET t1 == DescWhitespace(description)
             t2 == DescUrls(t1, new_website)
             t3 == DescTrademarks(t2)
             t4 == DescIdentity(t3, original_name, new_name)
             t5 == DescBeginning(t4, BaseName(original_name), BaseName(new_name))
         IN  UNION {DescValues(x) : x \in DescProperNouns(t5)}

(***************************************************************************)
(* Idle values: a specification about one part of the program keeps the    *)
(* variables of the other parts at these values.                           *)
(***************************************************************************)
NamesIdle == used_names = {} /\ issued = <<>>

TextIdle == text_in = <<>> /\ ctx = <<>> /\ text_out = <<>>

CsvIdle ==
    /\ input_rows = <<>>
    /\ locations = <<>>
    /\ stages = <<>>
    /\ sales_models = <<>>
    /\ loc_index = 0
    /\ stage_index = 0
    /\ sales_index = 0
    /\ rows = <<>>

(***************************************************************************)
(* SpecDates: randomize_dates applied to one text.                         *)
(***************************************************************************)
YearLo == 1998

YearHi == 2027

\* years that the pattern matches but the window excludes, and years it does not match
FarYears == {1900, 2099, 2100}

\* what stands directly before and behind a year in the input texts
DatePre == {<<>>, <<"i", "n", " ">>, <<"a">>, <<"_">>}

DatePost == {<<>>, <<".">>, <<"s">>, <<"-", "0", "1">>}

PairYears == {1999, 2000, 2004, 2012, 2025, 2026}

DateTexts ==
    {pre \o IntToStr(y) \o post :
        pre \in DatePre, y \in (YearLo..YearHi) \cup FarYears, post \in DatePost}
    \cup {IntToStr(y1) \o <<" ">> \o IntToStr(y2) : y1 \in PairYears, y2 \in PairYears}

InitDates ==
    /\ NamesIdle
    /\ CsvIdle
    /\ text_in \in DateTexts
    /\ ctx = <<>>
    /\ text_out = <<>>
    /\ pc = "dates"

RandomizeDates ==
    /\ pc = "dates"
    /\ text_out' \in randomize_dates(text_in)
    /\ pc' = "dates_done"
    /\ UNCHANGED <<name_vars, csv_vars, text_in, ctx>>

NextDates == RandomizeDates

SpecDates == InitDates /\ [][NextDates]_vars

\* a 4-digit token (a whole word of four digits) at index i
YearTokenAt(t, i) ==
    /\ Boundary(t, i)
    /\ \A k \in 0..3 : In(t, i + k, Digit)
    /\ Boundary(t, i + 4)

TokenYear(t, i) == StrToInt(SubSeq(t, i, i + 3))

\* the claim of C4 and C5 speak of the year tokens of the input, place by place
InRangeTokens(t) ==
    {i \in 1..Len(t) : YearTokenAt(t, i) /\ TokenYear(t, i) \in 2000..2025}

OutRangeTokens(t) ==
    {i \in 1..Len(t) : YearTokenAt(t, i) /\ TokenYear(t, i) \notin 2000..2025}

Abs(x) == IF x < 0 THEN -x ELSE x

C5_OutOfRangeUntouched ==
    pc = "dates_done" =>
        /\ Len(text_out) = Len(text_in)
        /\ \A i \in OutRangeTokens(text_in) :
              SubSeq(text_out, i, i + 3) = SubSeq(text_in, i, i + 3)

\* C5's case: the text holds a year outside the window next to a year of the
\* window that was replaced.
C5_Witness ==
    /\ pc = "dates_done"
    /\ OutRangeTokens(text_in) # {}
    /\ \E i \in InRangeTokens(text_in) : TokenYear(text_out, i) # TokenYear(text_in, i)

(***************************************************************************)
(* SpecAmount: randomize_amount applied to one text that holds one amount. *)
(***************************************************************************)
AmountPre == {<<>>, <<"u", "p", " ", "t", "o", " ">>}

AmountNumbers ==
    { <<"2">>, <<"5">>, <<"5", "0", "0">>, <<"1", ".", "5">>,
      <<"1", ",", "0", "0", "0">>,
      <<"9", "9", "9", ",", "9", "9", "9">>,
      <<"1", ",", "0", "0", "0", ",", "0", "0", "0">>,
      <<"1", ",", "1", "2", "0", ",", "0", "0", "0">>,
      <<",">> }

AmountTails ==
    { <<>>, <<".">>, <<"M">>, <<"K">>, <<"B">>, <<"T">>, <<"k">>,
      <<" ", "m", "i", "l", "l", "i", "o", "n">>,
      <<" ", "B", "i", "l", "l", "i", "o", "n">>,
      <<" ", "t", "r", "i", "l", "l", "i", "o", "n", ".">>,
      <<" ", "t", "o", " ", "1", "0">>,
      <<" ", "m", "o", "r", "e">>,
      <<" ", "a", "n", "d">>,
      <<" ", "3", " ", "t", "i", "m", "e", "s">> }

AmountTexts ==
    {pre \o <<"$">> \o num \o tail :
        pre \in AmountPre, num \in AmountNumbers, tail \in AmountTails}

InitAmount ==
    /\ NamesIdle
    /\ CsvIdle
    /\ text_in \in AmountTexts
    /\ ctx = <<>>
    /\ text_out = <<>>
    /\ pc = "amount"

RandomizeAmount ==
    /\ pc = "amount"
    /\ text_out' \in randomize_amount(text_in)
    /\ pc' = "amount_done"
    /\ UNCHANGED <<name_vars, csv_vars, text_in, ctx>>

NextAmount == RandomizeAmount

SpecAmount == InitAmount /\ [][NextAmount]_vars

\* the place of the text's amount
DollarAt(t) == CHOOSE i \in 1..Len(t) : t[i] = "$"

Million == <<"m", "i", "l", "l", "i", "o", "n">>

Billion == <<"b", "i", "l", "l", "i", "o", "n">>

Trillion == <<"t", "r", "i", "l", "l", "i", "o", "n">>

WholeWordAt(t, i, w) == LitAt(t, i, w, TRUE) /\ ~WordAt(t, i + Len(w))

\* The amount expression of the claim at index i ('$', a number, an
\* optional K/M/B/T or a spelled-out million/billion/trillion): the power of
\* ten of its suffix.  A word that only begins with one of the letters is
\* text that follows the amount, not its suffix.
ExprSuffixExp(t, i) ==
    LET j == i + 1 + AmountNumLen(t, i + 1)
        k == j + RunLen(t, j, Space)
    IN  IF WholeWordAt(t, k, Million) THEN 6
        ELSE IF WholeWordAt(t, k, Billion) THEN 9
        ELSE IF WholeWordAt(t, k, Trillion) THEN 12
        ELSE IF In(t, k, {"K", "k"}) /\ ~WordAt(t, k + 1) THEN 3
        ELSE IF In(t, k, {"M", "m"}) /\ ~WordAt(t, k + 1) THEN 6
        ELSE IF In(t, k, {"B", "b"}) /\ ~WordAt(t, k + 1) THEN 9
        ELSE IF In(t, k, {"T", "t"}) /\ ~WordAt(t, k + 1) THEN 12
        ELSE 0

ExprNumber(t, i) == RemoveCommas(SubSeq(t, i + 1, i + AmountNumLen(t, i + 1)))

\* The amount written at index i of the output, parsed back with its suffix:
\* the number and the K/M/B/T that adjoins it.
WrittenSuffixExp(t, i) ==
    LET k == i + 1 + AmountNumLen(t, i + 1)
    IN  IF In(t, k, {"K"}) THEN 3
        ELSE IF In(t, k, {"M"}) THEN 6
        ELSE IF In(t, k, {"B"}) THEN 9
        ELSE IF In(t, k, {"T"}) THEN 12
        ELSE 0

\* C3 as stated: the amount written in the place of a matched amount, parsed
\* back with its suffix, has a value within [0.67, 1.33] times the value of
\* the original amount expression.
C3_Original ==
    (pc = "amount_done" /\ ~FloatFails(ExprNumber(text_in, DollarAt(text_in)))) =>
        LET i == DollarAt(text_in)
            a == FloatMant(ExprNumber(text_in, i))
            ea == FloatExp(ExprNumber(text_in, i)) + ExprSuffixExp(text_in, i)
            b == FloatMant(ExprNumber(text_out, i))
            eb == FloatExp(ExprNumber(text_out, i)) + WrittenSuffixExp(text_out, i)
        IN  /\ text_out[i] = "$"
            /\ AmountNumLen(text_out, i + 1) > 0
            /\ LeqScaled(67 * a, ea, 100 * b, eb)
            /\ LeqScaled(100 * b, eb, 133 * a, ea)

(***************************************************************************)
(* Spec: one run's calls of a name generator against one used_names set    *)
(* (generate_random_name in the mentors run, generate_company_name in the  *)
(* portfolio run).                                                         *)
(***************************************************************************)
MaxCalls == 4

InitNames ==
    /\ used_names = {}
    /\ issued = <<>>
    /\ TextIdle
    /\ CsvIdle
    /\ pc \in {"mentors_names", "portfolio_names"}

IssuePerson ==
    /\ pc = "mentors_names"
    /\ Len(issued) < MaxCalls
    /\ \E draws \in [1..MaxAttempts -> PersonDraws] :
          LET r == generate_random_name(used_names, draws)
          IN  /\ used_names' = r.used
              /\ issued' = Append(issued, r.full_name)
    /\ UNCHANGED <<text_vars, csv_vars, pc>>

IssueCompany ==
    /\ pc = "portfolio_names"
    /\ Len(issued) < MaxCalls
    /\ \E draws \in [1..MaxAttempts -> CompanyDraws] :
          LET r == generate_company_name(used_names, draws)
          IN  /\ used_names' = r.used
              /\ issued' = Append(issued, r.name)
    /\ UNCHANGED <<text_vars, csv_vars, pc>>

NextNames == IssuePerson \/ IssueCompany

Spec == InitNames /\ [][NextNames]_vars

\* C1 as stated: no two display forms returned in one run are equal, the
\* numbered fallbacks included.
C1_Original ==
    \A i \in 1..Len(issued) : \A j \in 1..Len(issued) :
        i # j => issued[i] # issued[j]

\* C9 as stated: after every call the used-names set is the set of the
\* display forms returned so far, and its size is the number of calls.
C9_Original ==
    /\ used_names = Range(issued)
    /\ Cardinality(used_names) = Len(issued)

(***************************************************************************)
(* SpecCsv: anonymize_csv of anonymize_portfolio.py on a file whose header *)
(* is Name, Website, Pitch, Location, Stage, Sales Model.  A record is the *)
(* mapping csv.DictReader yields; "" is an empty field.                    *)
(***************************************************************************)
MaxRows == 2

RowMenu ==
    { [Name |-> <<"A","c","m","e"," ","I","n","c",".">>, Website |-> <<>>, Pitch |-> <<>>,
       Location |-> "Austin", Stage |-> "Seed", SalesModel |-> "B2B"],
      [Name |-> <<"C","o","l","d"," ","S","t","o","r","a","g","e">>, Website |-> <<>>, Pitch |-> <<>>,
       Location |-> "", Stage |-> "Seed", SalesModel |-> ""],
      [Name |-> <<"A","c","m","e">>, Website |-> <<>>, Pitch |-> <<>>,
       Location |-> "Dallas", Stage |-> "", SalesModel |-> "B2B"],
      [Name |-> <<"B","e","t","a",","," ","L","L","C">>, Website |-> <<>>, Pitch |-> <<>>,
       Location |-> "Austin", Stage |-> "Series A", SalesModel |-> "B2C"],
      [Name |-> <<"I","n","c","l","i","n","e"," ","C","o","r","p",".">>, Website |-> <<>>, Pitch |-> <<>>,
       Location |-> "", Stage |-> "Seed", SalesModel |-> "B2C"] }

InputFiles == UNION {[1..n -> RowMenu] : n \in 1..MaxRows}

\* the values of a column that the first pass collects: the non-empty ones
Collect(rs, col) ==
    LET f[k \in 0..Len(rs)] ==
            IF k = 0 THEN <<>>
            ELSE IF rs[k][col] # "" THEN Append(f[k - 1], rs[k][col]) ELSE f[k - 1]
    IN  f[Len(rs)]

\* random.shuffle(l): the orders it can leave
Shuffles(l) == {[i \in 1..Len(l) |-> l[q[i]]] : q \in Permutations(1..Len(l))}

InitCsv ==
    /\ TextIdle
    /\ used_names = {}
    /\ issued = <<>>
    /\ input_rows \in InputFiles
    /\ locations = <<>>
    /\ stages = <<>>
    /\ sales_models = <<>>
    /\ loc_index = 0
    /\ stage_index = 0
    /\ sales_index = 0
    /\ rows = <<>>
    /\ pc = "csv_collect"

\* the first pass and the three shuffles
CollectAndShuffle ==
    /\ pc = "csv_collect"
    /\ locations' \in Shuffles(Collect(input_rows, "Location"))
    /\ stages' \in Shuffles(Collect(input_rows, "Stage"))
    /\ sales_models' \in Shuffles(Collect(input_rows, "SalesModel"))
    /\ pc' = "csv_rows"
    /\ UNCHANGED <<name_vars, text_vars, input_rows, loc_index, stage_index,
                   sales_index, rows>>

\* mutant of Advance: the cursor skips a position
Advance_Skip(take, index) == IF take THEN index + 2 ELSE index

\* the cursor of a column behind a record: index += 1 where a value was taken
Advance(take, index) == IF take THEN index + 1 ELSE index

\* one turn of the second pass's loop, on the next record
AnonymizeRow ==
    /\ pc = "csv_rows"
    /\ Len(rows) < Len(input_rows)
    /\ \E gen \in {generate_company_name(used_names, draws) :
                        draws \in [1..MaxAttempts -> CompanyDraws]} :
          LET row == input_rows[Len(rows) + 1]
              original_name == row.Name
              new_base_name == gen.name
              suffix == preserve_suffix(original_name)
              new_name == IF suffix # <<>>
                          THEN new_base_name \o <<",", " ">> \o suffix
                          ELSE new_base_name
              slug == normalize_to_slug(new_name)
              take_loc == locations # <<>> /\ loc_index < Len(locations)
              take_stage == stages # <<>> /\ stage_index < Len(stages)
              take_sales == sales_models # <<>> /\ sales_index < Len(sales_models)
          IN  /\ used_names' = gen.used
              /\ issued' = Append(issued, new_base_name)
              /\ rows' = Append(rows,
                    [Name |-> new_name,
                     Website |-> HTTPS \o slug \o DOT_EXAMPLE,
                     Pitch |-> PITCH_URL \o slug,
                     Location |-> IF take_loc THEN locations[loc_index + 1]
                                  ELSE row.Location,
                     Stage |-> IF take_stage THEN stages[stage_index + 1]
                               ELSE row.Stage,
                     SalesModel |-> IF take_sales THEN sales_models[sales_index + 1]
                                    ELSE row.SalesModel])
              /\ loc_index' = Advance(take_loc, loc_index)
              /\ stage_index' = Advance(take_stage, stage_index)
              /\ sales_index' = Advance(take_sales, sales_index)
    /\ UNCHANGED <<text_vars, input_rows, locations, stages, sales_models, pc>>

\* the loop is over and the records are written
WriteRows ==
    /\ pc = "csv_rows"
    /\ Len(rows) = Len(input_rows)
    /\ pc' = "csv_done"
    /\ UNCHANGED <<name_vars, text_vars, csv_vars>>

NextCsv == CollectAndShuffle \/ AnonymizeRow \/ WriteRows

SpecCsv == InitCsv /\ [][NextCsv]_vars

\* the state of one cursor: it stands at the number of records processed,
\* capped by the length of its column, and the record k <= index holds
\* position k of the shuffled column
CursorState(index, column, col) ==
    /\ index = Min2(Len(rows), Len(column))
    /\ \A k \in 1..index : rows[k][col] = column[k]
    /\ pc = "csv_done" => index = Len(column)

\* one step of one cursor: it stays or moves one position forward
CursorStep(index, next_index) == next_index \in {index, index + 1}

\* C12: in the portfolio anonymize_csv each column cursor (loc_index,
\* stage_index, sales_index) is forward-only and advanced exactly once per
\* processed record until it reaches the length of its shuffled column: it
\* never decreases, never exceeds the column length, each position of the
\* shuffled column is handed to exactly one record, and after the last
\* record the cursor equals the column length.
C12_CursorForwardOnly ==
    /\ [](pc # "csv_collect" =>
            /\ CursorState(loc_index, locations, "Location")
            /\ CursorState(stage_index, stages, "Stage")
            /\ CursorState(sales_index, sales_models, "SalesModel"))
    /\ [][/\ CursorStep(loc_index, loc_index')
          /\ CursorStep(stage_index, stage_index')
          /\ CursorStep(sales_index, sales_index')]_vars

\* C12 witness: the run is over, a column is shorter than the file (its
\* cursor stopped before the last record) and another one is as long as the
\* file (its cursor moved at every record)
C12_Witness ==
    /\ pc = "csv_done"
    /\ Len(rows) = 2
    /\ loc_index = 1
    /\ stage_index = 2

\* how often v stands in column col of the records rs
CountIn(rs, col, v) == Cardinality({k \in 1..Len(rs) : rs[k][col] = v})

ColumnValues(col) ==
    {input_rows[k][col] : k \in 1..Len(input_rows)} \cup {rows[k][col] : k \in 1..Len(rows)}

\* C2 as stated: for Location, Stage and Sales Model the multiset of the
\* column's values over the output records equals the multiset over the
\* input records, empty values included.
C2_Original ==
    pc = "csv_done" =>
        \A col \in {"Location", "Stage", "SalesModel"} :
            \A v \in ColumnValues(col) :
                CountIn(rows, col, v) = CountIn(input_rows, col, v)

\* the corporate suffix a name ends with (<<>>: it ends with none): the
\* claim's reading of 'the original name ends with one of the suffixes'
EndingSuffix(name) ==
    LET ends == {i \in 1..Len(name) :
                    /\ Boundary(name, i)
                    /\ \E k \in 1..Len(CorpSuffixes) :
                          LET lit == CorpSuffixes[k].lit
                              rest == SubSeq(name, i + Len(lit), Len(name))
                          IN  /\ LitAt(name, i, lit, TRUE)
                              /\ rest = <<>> \/ (CorpSuffixes[k].dot /\ rest = <<".">>)}
    IN  IF ends = {} THEN <<>>
        ELSE SubSeq(name, CHOOSE i \in ends : TRUE, Len(name))

\* C10 as stated: the new name carries a legal suffix exactly when the
\* original name ends with a corporate suffix, and then that same token; a
\* name without such a suffix yields the bare generated name.
C10_Original ==
    \A k \in 1..Len(rows) :
        LET suffix == EndingSuffix(input_rows[k].Name)
        IN  rows[k].Name = IF suffix # <<>>
                           THEN issued[k] \o <<",", " ">> \o suffix
                           ELSE issued[k]

(***************************************************************************)
(* SpecBio: anonymize_bio applied to one bio.  The bios and the original   *)
(* names are drawn from small sets; the new identity is a draw of the name *)
(* generator or the identity Maria Lopez.                                  *)
(***************************************************************************)
BioTexts ==
    { <<"J","a","n","e"," ","C","a","r","t","e","r"," ","f","o","u","n","d","e","d"," ","t","h","e"," ","f","i","r","m",";"," ","C","a","r","t","e","r"," ","l","a","t","e","r"," ","s","o","l","d"," ","i","t">>,
      <<"I"," ","w","o","r","k","e","d"," ","a","t"," ","G","O","O","G","L","E"," ","a","n","d"," ","G","o","o","g","l","e"," ","o","n"," ","t","h","e"," ","s","a","m","e"," ","p","r","o","j","e","c","t">>,
      <<"W","e"," ","b","u","i","l","t"," ","I","o","T"," ","d","e","v","i","c","e","s">>,
      <<"S","e","n","i","o","r"," ","C","E","O"," ","o","f"," ","a"," ","S","a","a","S"," ","f","i","r","m">>,
      <<"O","u","r"," ","A","P","I"," ","a","n","d"," ","A","I"," ","t","o","o","l","s"," ","r","u","n"," ","o","n"," ","A","W","S",","," ","n","o","t"," ","I","B","M">>,
      <<"J","a","n","e"," ","a","d","v","i","s","e","d"," ","G","o","l","d","m","a","n"," ","S","a","c","h","s",","," ","t","h","e","n"," ","c","h","a","s","e"," ","a","n","d"," ","M","c","K","i","n","s","e","y",".">>,
      <<"S","t","a","t","e"," ","F","a","r","m"," ","i","n","s","u","r","e","d"," ","t","h","e"," ","A","c","m","e"," ","A","n","g","e","l"," ","N","e","t","w","o","r","k">>,
      <<"M","a","i","l"," ","j","a","n","e","@","m","a","i","l",".","e","x","a","m","p","l","e",".","c","o","m",","," ","c","a","l","l"," ","7","1","3","-","5","5","5","-","1","2","3","4"," ","o","r"," ","s","e","e"," ","w","w","w",".","e","x","a","m","p","l","e",".","o","r","g">>,
      <<"c","h","e","r"," ","a","n","d"," ","l","i"," ","w","a","n","g"," ","j","o","i","n","e","d"," ","h","p"," ","i","n"," ","2","0","1","9">>,
      <<"S","e","e"," ","h","t","t","p","s",":","/","/","g","o","o","g","l","e",".","c","o","m","/","a","b","o","u","t">>,
      <<"C","a","l","l"," ","7","1","3"," ","5","5","5"," ","1","2","3","4"," ","o","r"," ","w","r","i","t","e"," ","b","o","b","@","g","o","o","g","l","e",".","c","o","m">>,
      <<>> }

BioOriginalNames ==
    { <<"D","r","."," ","J","a","n","e"," ","C","a","r","t","e","r">>,
      <<"J","a","n","e"," ","C","a","r","t","e","r">>,
      <<"L","i"," ","W","a","n","g">>,
      <<"C","h","e","r">> }

BioNewNames ==
    PersonDraws \cup
    {[first |-> <<"M","a","r","i","a">>, last |-> <<"L","o","p","e","z">>,
      full_name |-> <<"M","a","r","i","a"," ","L","o","p","e","z">>]}

BioIdentities ==
    {[original_name |-> o, new_first_name |-> n.first,
      new_last_name |-> n.last, new_full_name |-> n.full_name] :
        o \in BioOriginalNames, n \in BioNewNames}

InitBio ==
    /\ NamesIdle
    /\ CsvIdle
    /\ text_in \in BioTexts
    /\ ctx \in BioIdentities
    /\ text_out = <<>>
    /\ pc = "bio"

AnonymizeBio ==
    /\ pc = "bio"
    /\ text_out' = anonymize_bio(text_in, ctx.original_name, ctx.new_first_name,
                                 ctx.new_last_name, ctx.new_full_name)
    /\ pc' = "bio_done"
    /\ UNCHANGED <<name_vars, csv_vars, text_in, ctx>>

NextBio == AnonymizeBio

SpecBio == InitBio /\ [][NextBio]_vars

\* the number of whole-word occurrences of lit in t (ic: in any letter case)
CountWord(t, lit, ic) ==
    Cardinality({i \in 1..Len(t) : WordLitLen(t, i, lit, ic) > 0})

\* the original name without its honorific, and its last-name part
OriginalFullName == extract_honorific(ctx.original_name)[2]

OriginalLastName == JoinSpace(Tail(Split(OriginalFullName)))

\* C6: in the final output of anonymize_bio every whole-word occurrence of
\* the original full name has become the new full name and every bare
\* occurrence of the original last name has become the new last name.  Stated
\* by its consequence on the counts: for an original name of two or more
\* words, the output has at least as many whole-word occurrences of the new
\* full name as the bio has of the original full name, and at least as many
\* of the new last name as the bio has of the original last name.
C6_Original ==
    (pc = "bio_done" /\ Len(Split(OriginalFullName)) >= 2) =>
        /\ CountWord(text_out, ctx.new_full_name, FALSE)
              >= CountWord(text_in, OriginalFullName, TRUE)
        /\ CountWord(text_out, ctx.new_last_name, FALSE)
              >= CountWord(text_in, OriginalLastName, TRUE)

\* the allow-lists of anonymize_bio
BioAllowList == common_acronyms \cup CamelKeep

\* C7: the allow-listed generic acronyms are never replaced by any pass:
\* every occurrence of such a token in the input of anonymize_bio is still
\* present, unchanged, in the output.  Stated by its consequence on the
\* counts: the output has at least as many whole-word occurrences of every
\* allow-listed token as the bio has.
C7_Original ==
    pc = "bio_done" =>
        \A a \in BioAllowList :
            CountWord(text_out, a, FALSE) >= CountWord(text_in, a, FALSE)

\* the placeholders of the table's categories
EntityPlaceholders == {known_entities[k].replacement : k \in 1..Len(known_entities)}

\* the whole-word occurrences, in any letter case, of the known entities of
\* the category with placeholder ph
EntityOccurrences(t, ph) ==
    {<<k, i>> \in (1..Len(known_entities)) \X (1..Len(t)) :
        /\ known_entities[k].replacement = ph
        /\ WordLitLen(t, i, known_entities[k].entity, TRUE) > 0}

\* the places where t has exactly the placeholder ph, not a bracketed copy
ExactPlaceholders(t, ph) ==
    {i \in 1..Len(t) :
        /\ LitAt(t, i, ph, FALSE)
        /\ ~(In(t, i - 1, {"["}) /\ In(t, i + Len(ph), {"]"}))}

\* C8: in anonymize_bio every whole-word occurrence of a known-entity name,
\* in any letter case, is rendered in the output as exactly the placeholder
\* of that entity's category.  Stated by its consequence on the counts: for
\* every category the output has at least as many exact placeholders as the
\* bio has occurrences of the category's entities.
C8_Original ==
    pc = "bio_done" =>
        \A ph \in EntityPlaceholders :
            Cardinality(ExactPlaceholders(text_out, ph))
                >= Cardinality(EntityOccurrences(text_in, ph))

(***************************************************************************)
(* SpecRound: randomize_funding_round applied to one text.                 *)
(***************************************************************************)
RoundPre == { <<>>, <<"r","a","i","s","e","d"," ","a"," ">>, <<"S","e","r","i","e","s"," ","D"," ","t","h","e","n"," ">> }

RoundTokens ==
    { <<"A","n","g","e","l">>,
      <<"P","r","e","-","S","e","e","d">>,
      <<"S","e","e","d">>,
      <<"S","e","r","i","e","s"," ","A">>,
      <<"S","e","r","i","e","s"," ","B">>,
      <<"S","e","r","i","e","s"," ","C">>,
      <<"S","e","r","i","e","s"," ","D">>,
      <<"S","e","r","i","e","s"," ","Z">>,
      <<"s","e","e","d">>,
      <<"S","E","R","I","E","S"," ","b">>,
      <<"p","r","e","-","s","e","e","d">>,
      <<"a","n","g","e","l">>,
      <<"S","e","e","d","s">>,
      <<"S","e","r","i","e","s"," ","A","B">>,
      <<"A","n","g","e","l","i","c">> }

RoundPost == { <<>>,
                 <<" ","r","o","u","n","d">>,
                 <<","," ","l","a","t","e","r"," ","S","e","r","i","e","s"," ","C",".">> }

RoundTexts == {a \o b \o c : a \in RoundPre, b \in RoundTokens, c \in RoundPost}

InitRound ==
    /\ NamesIdle
    /\ CsvIdle
    /\ text_in \in RoundTexts
    /\ ctx = <<>>
    /\ text_out = <<>>
    /\ pc = "round"

RandomizeFundingRound ==
    /\ pc = "round"
    /\ text_out' \in randomize_funding_round(text_in)
    /\ pc' = "round_done"
    /\ UNCHANGED <<name_vars, csv_vars, text_in, ctx>>

NextRound == RandomizeFundingRound

SpecRound == InitRound /\ [][NextRound]_vars

\* the ladder index (from 0) of a token that is a ladder round in any letter
\* case; -1 for a token that is not on the ladder
LadderIndex(token) ==
    LET hits == {k \in 1..Len(rounds) : ToLower(rounds[k]) = ToLower(token)}
    IN  IF hits = {} THEN -1 ELSE (CHOOSE k \in hits : TRUE) - 1

\* what the claim allows in the place of a matched token
AllowedRounds(token) ==
    LET i == LadderIndex(token)
    IN  IF i = -1 THEN {token}
        ELSE {rounds[j + 1] : j \in Max2(0, i - 1)..Min2(5, i + 1)}

\* C16: randomize_funding_round replaces every matched round of the ladder
\* at ladder index i by the ladder round at an index j with
\* max(0, i-1) <= j <= min(5, i+1), and leaves a matched token that is not on
\* the ladder (Series D to Series Z) unchanged; the text between the matches
\* stays as it is.
C16_OneStepOnLadder ==
    pc = "round_done" =>
        text_out \in ReSubAll(text_in,
            [i \in 1..Len(text_in) |-> RoundMatchLen(text_in, i)],
            [i \in 1..Len(text_in) |->
                AllowedRounds(Match(text_in, i, RoundMatchLen(text_in, i)))])

\* C16 witness: the text has a token off the ladder and a round on it, and
\* the round has moved
C16_Witness ==
    /\ pc = "round_done"
    /\ text_out # text_in
    /\ \E i \in 1..Len(text_in) :
          /\ RoundMatchLen(text_in, i) > 0
          /\ LadderIndex(Match(text_in, i, RoundMatchLen(text_in, i))) = -1
    /\ \E i \in 1..Len(text_in) :
          /\ RoundMatchLen(text_in, i) > 0
          /\ LadderIndex(Match(text_in, i, RoundMatchLen(text_in, i))) = 5

\* the text of the current bio behind the known-entity, CamelCase and acronym
\* passes, as the multi-word pass receives it
BioBeforeMultiword ==
    BioAcronyms(BioCamelCase(BioKnownEntities(
        BioIdentity(text_in, ctx.original_name, ctx.new_first_name,
                    ctx.new_last_name, ctx.new_full_name))))

\* the placeholders the known-entity, CamelCase and acronym passes insert
InsertedPlaceholders == EntityPlaceholders \cup {PH_TECH}

\* C14: in anonymize_bio no pass re-matches text introduced by an earlier
\* pass: every bracketed placeholder inserted by the known-entity, CamelCase
\* or acronym pass appears in the final output exactly as inserted, with a
\* single pair of brackets.  Stated by its consequence on the counts: for
\* every placeholder, the final output has at least as many exact copies as
\* the text had when the multi-word pass received it.
C14_Original ==
    pc = "bio_done" =>
        \A ph \in InsertedPlaceholders :
            Cardinality(ExactPlaceholders(text_out, ph))
                >= Cardinality(ExactPlaceholders(BioBeforeMultiword, ph))

(***************************************************************************)
(* SpecMentors: the mentors' anonymize_csv.  A record is a function from   *)
(* the column names of the header to the cells; the files have one or more *)
(* records of a small menu, with or without the Bio column.                *)
(***************************************************************************)
COL_FULL_NAME == "Full Name"

COL_BIO == "Bio"

COL_INDUSTRY == "Industry Expertise"

COL_TECHNOLOGY == "Technology Expertise"

MentorMenu ==
    { (COL_FULL_NAME :> <<"D","r","."," ","J","a","n","e"," ","C","a","r","t","e","r">> @@ COL_BIO :> <<"J","a","n","e"," ","C","a","r","t","e","r"," ","a","d","v","i","s","e","s"," ","G","o","o","g","l","e">> @@
       COL_INDUSTRY :> "Fintech" @@ COL_TECHNOLOGY :> "AI"),
      (COL_FULL_NAME :> <<"L","i"," ","W","a","n","g">> @@ COL_BIO :> <<>> @@
       COL_INDUSTRY :> "Health" @@ COL_TECHNOLOGY :> ""),
      (COL_FULL_NAME :> <<"C","h","e","r">> @@ COL_BIO :> <<"A","s","k"," ","C","h","e","r"," ","a","b","o","u","t"," ","I","o","T">> @@
       COL_INDUSTRY :> "Media" @@ COL_TECHNOLOGY :> "Cloud") }

\* the record without the column col
DropColumn(row, col) == [c \in DOMAIN row \ {col} |-> row[c]]

MentorFiles ==
    UNION {[1..n -> MentorMenu] : n \in 1..MaxRows}
    \cup UNION {[1..n -> {DropColumn(r, COL_BIO) : r \in MentorMenu}] : n \in 1..MaxRows}

InitMentors ==
    /\ TextIdle
    /\ used_names = {}
    /\ issued = <<>>
    /\ input_rows \in MentorFiles
    /\ locations = <<>>
    /\ stages = <<>>
    /\ sales_models = <<>>
    /\ loc_index = 0
    /\ stage_index = 0
    /\ sales_index = 0
    /\ rows = <<>>
    /\ pc = "mentors_rows"

\* mutant of MentorOutputRow: the Technology Expertise cell is emptied too
MentorOutputRow_ClearsTechnology(row, new) ==
    [c \in DOMAIN row |->
        IF c = COL_FULL_NAME
        THEN LET honorific == extract_honorific(row[COL_FULL_NAME])[1]
             IN  IF honorific # <<>> THEN honorific \o <<" ">> \o new.full_name
                 ELSE new.full_name
        ELSE IF c = COL_BIO
        THEN anonymize_bio(row[COL_BIO], row[COL_FULL_NAME],
                           new.first, new.last, new.full_name)
        ELSE IF c = COL_TECHNOLOGY THEN ""
        ELSE row[c]]

\* the record the loop appends for the input record row and the generated
\* name new: 'Full Name' and, where the file has the column, 'Bio' are set
MentorOutputRow(row, new) ==
    [c \in DOMAIN row |->
        IF c = COL_FULL_NAME
        THEN LET honorific == extract_honorific(row[COL_FULL_NAME])[1]
             IN  IF honorific # <<>> THEN honorific \o <<" ">> \o new.full_name
                 ELSE new.full_name
        ELSE IF c = COL_BIO
        THEN anonymize_bio(row[COL_BIO], row[COL_FULL_NAME],
                           new.first, new.last, new.full_name)
        ELSE row[c]]

\* one turn of the loop, on the next record
MentorRow ==
    /\ pc = "mentors_rows"
    /\ Len(rows) < Len(input_rows)
    /\ \E new \in {generate_random_name(used_names, draws) :
                        draws \in [1..MaxAttempts -> PersonDraws]} :
          /\ used_names' = new.used
          /\ issued' = Append(issued, new.full_name)
          /\ rows' = Append(rows, MentorOutputRow(input_rows[Len(rows) + 1], new))
    /\ UNCHANGED <<text_vars, input_rows, locations, stages, sales_models,
                   loc_index, stage_index, sales_index, pc>>

\* the loop is over and the records are written under the header read
WriteMentors ==
    /\ pc = "mentors_rows"
    /\ Len(rows) = Len(input_rows)
    /\ pc' = "mentors_done"
    /\ UNCHANGED <<name_vars, text_vars, csv_vars>>

NextMentors == MentorRow \/ WriteMentors

SpecMentors == InitMentors /\ [][NextMentors]_vars

\* C13: the mentors anonymize_csv changes only the 'Full Name' and 'Bio'
\* fields: every record written has the columns of its input record and the
\* input's value in every other column (in particular Industry Expertise
\* and Technology Expertise), and the output has the same number of records
\* in the same order.
C13_OnlyNameAndBio ==
    /\ Len(rows) <= Len(input_rows)
    /\ pc = "mentors_done" => Len(rows) = Len(input_rows)
    /\ \A k \in 1..Len(rows) :
          /\ DOMAIN rows[k] = DOMAIN input_rows[k]
          /\ \A c \in DOMAIN rows[k] \ {COL_FULL_NAME, COL_BIO} :
                rows[k][c] = input_rows[k][c]

\* C13 witness: a file of two different records with a Bio column is
\* written, and the name and the bio of its first record have changed
C13_Witness ==
    /\ pc = "mentors_done"
    /\ Len(rows) = 2
    /\ input_rows[1] # input_rows[2]
    /\ COL_BIO \in DOMAIN rows[1]
    /\ rows[1][COL_FULL_NAME] # input_rows[1][COL_FULL_NAME]
    /\ rows[1][COL_BIO] # input_rows[1][COL_BIO]

(***************************************************************************)
(* SpecDesc: anonymize_description applied to one description.  The new    *)
(* name and the new website are built as anonymize_csv builds them, from a *)
(* draw of the company name generator and the suffix of the original name. *)
(***************************************************************************)
DescTexts ==
    { <<"A","c","m","e",","," ","I","n","c","."," ","b","u","i","l","d","s"," ","r","o","b","o","t","s",";"," ","a","c","m","e"," ","i","s"," ","g","r","e","a","t">>,
      <<"A","c","m","e"," ","I","n","c","."," ","b","u","i","l","d","s"," ","r","o","b","o","t","s"," ","a","n","d"," ","A","C","M","E"," ","I","N","C"," ","t","o","o">>,
      <<"w","e"," ","l","o","v","e"," ","a","c","m","e">>,
      <<"A","c","m","e"," ","r","a","i","s","e","d"," ","a"," ","S","e","e","d"," ","r","o","u","n","d",","," ","t","h","e","n"," ","S","e","r","i","e","s"," ","A">>,
      <<"r","a","i","s","e","d"," ","P","r","e","-","S","e","e","d"," ","f","r","o","m"," ","A","n","g","e","l"," ","i","n","v","e","s","t","o","r","s"," ","i","n"," ","2","0","1","5">>,
      <<"s","e","e"," ","h","t","t","p","s",":","/","/","a","c","m","e",".","c","o","m","/","x",","," ","o","r"," ","w","w","w",".","a","c","m","e",".","c","o","m">>,
      <<"m","a","i","l"," ","b","o","b","@","e","x","a","m","p","l","e",".","c","o","m"," ","o","r"," ","c","a","l","l"," ","7","1","3","-","5","5","5","-","1","2","3","4">>,
      <<"a","n"," ","h","p"," ","b","o","x"," ","b","y"," ","i","b","m"," ","a","t"," ","5"," ","p","m">>,
      <<"D","r","."," ","S","m","i","t","h"," ","o","f"," ","I","B","M"," ","b","u","i","l","t"," ","i","t">>,
      <<"f","r","o","m"," ","2","0","2","4"," ","t","o"," ","2","0","2","4">>,
      <<"p","a","i","d"," ","$","9",";"," ","t","h","e","n"," ","$","9",".">>,
      <<"D","r","."," ","Z","e","t","a"," ","m","e","t"," ","Z","e","t","a">>,
      <<>> }

DescOriginalNames == { <<"A","c","m","e",","," ","I","n","c",".">>,
      <<"A","c","m","e"," ","I","n","c",".">>,
      <<"A","c","m","e">> }

\* new_name and new_website of anonymize_csv for the original name and the
\* generated new_base_name
DescIdentityOf(original_name, new_base_name) ==
    LET suffix == preserve_suffix(original_name)
        new_name == IF suffix # <<>> THEN new_base_name \o <<",", " ">> \o suffix
                    ELSE new_base_name
    IN  [original_name |-> original_name, new_name |-> new_name,
         new_website |-> HTTPS \o normalize_to_slug(new_name) \o DOT_EXAMPLE]

DescIdentities ==
    {DescIdentityOf(o, n) : o \in DescOriginalNames, n \in CompanyDraws}

InitDesc ==
    /\ NamesIdle
    /\ CsvIdle
    /\ text_in \in DescTexts
    /\ ctx \in DescIdentities
    /\ text_out = <<>>
    /\ pc = "desc"

AnonymizeDescription ==
    /\ pc = "desc"
    /\ text_out' \in anonymize_description(text_in, ctx.original_name,
                                           ctx.new_name, ctx.new_website)
    /\ pc' = "desc_done"
    /\ UNCHANGED <<name_vars, csv_vars, text_in, ctx>>

NextDesc == AnonymizeDescription

SpecDesc == InitDesc /\ [][NextDesc]_vars

\* the base name of the original company: the original names of the model are
\* one word, followed or not by punctuation and a legal suffix
OriginalBaseWord ==
    Prefix(ctx.original_name, RunLen(ctx.original_name, 1, Letter \cup Digit))

\* C11: after anonymize_description no whole-word mention of the original
\* company's name survives in the output: every occurrence in the
\* description of the full name or of the base name without the suffix, in
\* any letter case, has been replaced.
C11_Original ==
    pc = "desc_done" =>
        /\ CountWord(text_out, ctx.original_name, TRUE) = 0
        /\ CountWord(text_out, OriginalBaseWord, TRUE) = 0

\* the number of places where t has the literal lit
CountLit(t, lit) == Cardinality({i \in 1..Len(t) : LitAt(t, i, lit, FALSE)})

\* the text of the current description behind the identity-replacement pass
DescAfterIdentity ==
    DescIdentity(DescTrademarks(DescUrls(DescWhitespace(text_in), ctx.new_website)),
                 ctx.original_name, ctx.new_name)

\* C15: in anonymize_description the new company name written by the
\* identity-replacement pass is not later classified as a generic entity:
\* each place where the original name stood shows the new name (or new base
\* name) in the final output.  Stated by its consequence on the counts: the
\* final output has the new base name at least as often as the text had it
\* behind the identity-replacement pass.
C15_Original ==
    pc = "desc_done" =>
        CountLit(text_out, BaseName(ctx.new_name))
            >= CountLit(DescAfterIdentity, BaseName(ctx.new_name))

\* the places where t has a round name of the ladder; exact: as written on
\* the ladder
LadderRoundsAt(t, exact) ==
    {i \in 1..Len(t) :
        /\ RoundMatchLen(t, i) > 0
        /\ LadderIndex(Match(t, i, RoundMatchLen(t, i))) >= 0
        /\ exact => \E k \in 1..Len(rounds) : Match(t, i, RoundMatchLen(t, i)) = rounds[k]}

\* C17: anonymize_description randomizes the funding rounds embedded in a
\* description: for every ladder round name of the input, written as on the
\* ladder, the final output has a ladder round name in that place.  Stated by
\* its consequence on the counts: the output has at least as many ladder
\* round names as the input has round names written as on the ladder.
C17_Original ==
    pc = "desc_done" =>
        Cardinality(LadderRoundsAt(text_out, FALSE))
            >= Cardinality(LadderRoundsAt(text_in, TRUE))

\* the tokens (maximal runs of word characters) of t
WordTokens(t) ==
    {Match(t, i, RunLen(t, i, Upper \cup Lower \cup Digit \cup {"_"})) :
        i \in {j \in 1..Len(t) : WordAt(t, j) /\ ~WordAt(t, j - 1)}}

\* a token of length <= 2, a pure numeral or a lowercase-initial token
NeverAnEntity(w) == Len(w) <= 2 \/ Range(w) \subseteq Digit \/ w[1] \in Lower

\* the words of the record's own original name, in lower case
OwnNameWords == {ToLower(Split(OriginalFullName)[k]) : k \in 1..Len(Split(OriginalFullName))}

\* the text of the current bio behind the entity passes, as the passes for
\* URLs, e-mail addresses and phone numbers receive it
BioBeforeContacts == BioMultiword(BioBeforeMultiword)

\* C18: tokens of length <= 2, pure numerals and lowercase-initial tokens are
\* never classified as entities: in anonymize_bio no such token of the input
\* (other than a part of the record's own original name) is replaced by an
\* entity placeholder.  Stated by its consequence on the counts: behind the
\* entity passes the text has every such token at least as often as the
\* input has it.
C18_Original ==
    pc = "bio_done" =>
        \A w \in {x \in WordTokens(text_in) : NeverAnEntity(x)} :
            ToLower(w) \notin OwnNameWords =>
                CountWord(BioBeforeContacts, w, FALSE) >= CountWord(text_in, w, FALSE)

\* the URLs of t replaced by the substitute link
UrlsReplaced(t) ==
    LET t1 == ReSub(t, [i \in 1..Len(t) |-> HttpUrlLen(t, i)],
                       [i \in 1..Len(t) |-> PH_WEBSITE])
    IN  ReSub(t1, [i \in 1..Len(t1) |-> WwwUrlLen(t1, i)],
                  [i \in 1..Len(t1) |-> PH_WEBSITE])

\* C19: URL replacement acts on the URL as it stands in the input, ahead of
\* the identity-name and entity-classification passes: every URL of the
\* input is replaced as a whole by the single substitute link and no
\* fragment of it remains, that is, the output of anonymize_bio is what the
\* passes give for the input with its URLs already replaced.
C19_Original ==
    pc = "bio_done" =>
        text_out = anonymize_bio(UrlsReplaced(text_in), ctx.original_name,
                                 ctx.new_first_name, ctx.new_last_name,
                                 ctx.new_full_name)

\* [-. ]? at index i
ClaimSepLen(t, i) == IF In(t, i, {"-", ".", " "}) THEN 1 ELSE 0

\* a 10-digit phone number at index i as the claim describes it: dash-, dot-
\* or space-separated, or with a parenthesized area code
ClaimPhoneAt(t, i) ==
    LET Tail7(j) ==
            LET s == ClaimSepLen(t, j + 3)
            IN  DigitsAt(t, j, 3) /\ DigitsAt(t, j + 3 + s, 4) /\ ~WordAt(t, j + 7 + s)
        s1 == ClaimSepLen(t, i + 3)
        ws == RunLen(t, i + 5, Space)
    IN  \/ Boundary(t, i) /\ DigitsAt(t, i, 3) /\ Tail7(i + 3 + s1)
        \/ In(t, i, {"("}) /\ DigitsAt(t, i + 1, 3) /\ In(t, i + 4, {")"}) /\ Tail7(i + 5 + ws)

\* C20: contact details are redacted: every e-mail address and every
\* 10-digit phone number of the input is replaced by the fixed generic token
\* in the output of anonymize_bio.  Stated by its consequence on the counts:
\* the output has '[email]' at least as often as the input has e-mail
\* addresses and '[phone]' at least as often as the input has phone numbers.
C20_Original ==
    pc = "bio_done" =>
        /\ CountLit(text_out, PH_EMAIL)
              >= Cardinality({i \in 1..Len(text_in) : EmailLen(text_in, i) > 0})
        /\ CountLit(text_out, PH_PHONE)
              >= Cardinality({i \in 1..Len(text_in) : ClaimPhoneAt(text_in, i)})

\* the text anonymize_description hands to its loop over unique_proper_nouns
DescBeforeProperNouns ==
    DescBeginning(DescAfterIdentity, BaseName(ctx.original_name), BaseName(ctx.new_name))

\* the distinct four-digit year tokens of a text
YearForms(t) == {Match(t, i, 4) : i \in {j \in 1..Len(t) : YearTokenAt(t, j)}}

\* the distinct dollar amounts of a text
AmountForms(t) ==
    {Match(t, i, AmountMatchLen(t, i)) : i \in {j \in 1..Len(t) : AmountMatchLen(t, j) > 0}}

\* the substitutes the loop over unique_proper_nouns writes
NounSubstitutes == {PH_PRODUCT} \cup random_first_names \cup random_last_names

\* C21, for years: a description all of whose year tokens are the same year
\* has one year at most in the output
C21_SameYear ==
    Cardinality(YearForms(text_in)) = 1 => Cardinality(YearForms(text_out)) <= 1

\* C21, for amounts: a description all of whose dollar amounts are the same
\* amount has one amount at most in the output
C21_SameAmount ==
    Cardinality(AmountForms(text_in)) = 1 => Cardinality(AmountForms(text_out)) <= 1

\* C21, for proper nouns: one substitute stands in the output at least as
\* often as the proper noun stood in the text
C21_SameNoun ==
    \A w \in unique_proper_nouns(DescBeforeProperNouns) :
        \E r \in NounSubstitutes :
            CountLit(text_out, r) >= CountWord(DescBeforeProperNouns, w, FALSE)

\* C21: within one invocation of anonymize_description every occurrence of
\* the same original surface form resolves to the same replacement: two
\* occurrences of the same proper noun, the same year or the same amount in
\* one description are replaced by identical text in the output.
C21_Original ==
    pc = "desc_done" => C21_SameNoun /\ C21_SameYear /\ C21_SameAmount

\* the text after the identity substitutions of anonymize_bio
BioAfterIdentity ==
    BioIdentity(text_in, ctx.original_name, ctx.new_first_name,
                ctx.new_last_name, ctx.new_full_name)

\* the first-name part of the original name
OriginalFirstName == Head(Split(OriginalFullName))

\* C22: the three identity substitutions of anonymize_bio (full name, then
\* first name, then last name) do not rewrite one another's output: for
\* every original name and every new name the pool can issue, the text after
\* the identity step shows the new full name wherever the original full name
\* stood, the new first name wherever the original first name stood and the
\* new last name wherever the original last name stood.  Stated by its
\* consequence on the counts, for an original name of two or more words: the
\* text after the identity step has each new form at least as often as the
\* bio has the original form.
C22_Original ==
    (pc = "bio_done" /\ Len(Split(OriginalFullName)) >= 2) =>
        /\ CountWord(BioAfterIdentity, ctx.new_full_name, FALSE)
              >= CountWord(text_in, OriginalFullName, TRUE)
        /\ CountWord(BioAfterIdentity, ctx.new_first_name, FALSE)
              >= CountWord(text_in, OriginalFirstName, TRUE)
        /\ CountWord(BioAfterIdentity, ctx.new_last_name, FALSE)
              >= CountWord(text_in, OriginalLastName, TRUE)

====
